---- MODULE Spec2Model ----
(***************************************************************************)
(* Verification model of the noise-suppression core of PM100D_GUI:         *)
(*   src/src/component/lms_filter.py          LMSFilter, AdaptiveLMSFilter *)
(*   src/src/component/dual_path_processor.py DualPathProcessor            *)
(*                                                                         *)
(* One DualPathProcessor (ChannelSuppressor) with the AdaptiveLMSFilter it *)
(* may own is driven by caller threads.  Every `with self._lock` of the    *)
(* source is a step that waits for a non-reentrant threading.Lock.         *)
(*                                                                         *)
(* float64 values are modelled as fixed-point integers: the real number x  *)
(* is the integer x * Scale, and every product or quotient is rounded down *)
(* to that resolution.  A quotient by zero and a correlation of a constant *)
(* series give NaN, as numpy does (no exception is raised).                *)
(***************************************************************************)
EXTENDS Integers, Sequences, FiniteSets

\* ------------------------------------------------------------------------
\* Bounds of the model
\* ------------------------------------------------------------------------

\* public calls a caller makes in one short run
MaxCalls == 3

\* largest buffer_size constructed in the short-run specifications
MaxBufferSize == 2

\* calls the producer makes in the long stream
LongSamples == 103

\* calls two concurrent threads make between them
MaxConcurrentCalls == 2

\* calls one thread makes on the MultiChannelProcessor
MaxRouterCalls == 5

\* calls two concurrent threads make on the MultiChannelProcessor between them
MaxConcurrentRouterCalls == 4

\* calls one thread makes on an LMSFilter of its own
MaxEngineCalls == 3

\* ------------------------------------------------------------------------
\* Fixed-point arithmetic standing for float64
\* ------------------------------------------------------------------------

\* resolution: 1.0 is Scale
Scale == 1000

\* the non-finite result of 0/0 or x/0 in numpy arithmetic
NaN == 0 - 1000000000

IsNaN(x) == x = NaN

FAdd(a, b) == IF IsNaN(a) \/ IsNaN(b) THEN NaN ELSE a + b

FSub(a, b) == IF IsNaN(a) \/ IsNaN(b) THEN NaN ELSE a - b

FMul(a, b) == IF IsNaN(a) \/ IsNaN(b) THEN NaN ELSE (a * b) \div Scale

FDiv(a, b) == IF IsNaN(a) \/ IsNaN(b) \/ b = 0 THEN NaN ELSE (a * Scale) \div b

FAbs(a) == IF IsNaN(a) THEN NaN ELSE IF a < 0 THEN 0 - a ELSE a

\* a > b on floats: every comparison with NaN is false
FGt(a, b) == ~IsNaN(a) /\ ~IsNaN(b) /\ a > b

FLt(a, b) == ~IsNaN(a) /\ ~IsNaN(b) /\ a < b

\* Python's max(a, b): b replaces a only if b > a
FMax(a, b) == IF FGt(b, a) THEN b ELSE a

\* Python's min(a, b)
FMin(a, b) == IF FLt(b, a) THEN b ELSE a

\* the one element of a singleton set: Only({ e(v) : v \in {x} }) is e(x)
\* with x evaluated once
Only(S) == CHOOSE v \in S : TRUE

SeqHasNaN(s) == \E i \in DOMAIN s : IsNaN(s[i])

RECURSIVE SumRange(_, _, _)
SumRange(s, lo, hi) ==
    IF lo > hi THEN 0
    ELSE IF lo = hi THEN s[lo]
    ELSE Only({ SumRange(s, lo, mid) + SumRange(s, mid + 1, hi)
                : mid \in {(lo + hi) \div 2} })

\* np.sum
SeqSum(xs) ==
    Only({ IF SeqHasNaN(s) THEN NaN ELSE SumRange(s, 1, Len(s)) : s \in {xs} })

\* np.mean
Mean(xs) ==
    Only({ IF Len(s) = 0 \/ SeqHasNaN(s) THEN NaN ELSE SumRange(s, 1, Len(s)) \div Len(s)
           : s \in {xs} })

RECURSIVE SqrtIter(_, _)
SqrtIter(n, x) ==
    Only({ IF y >= x THEN x ELSE SqrtIter(n, y) : y \in {(x + n \div x) \div 2} })

\* floor of the square root of a natural number
ISqrt(n) == Only({ IF v <= 0 THEN 0 ELSE SqrtIter(v, v) : v \in {n} })

\* the mean of (a[i] - ma) * (b[i] - mb)
MeanProduct(a, ma, b, mb) ==
    Mean([i \in 1..Len(a) |-> FMul(FSub(a[i], ma), FSub(b[i], mb))])

\* np.var (population variance)
Variance(xs) ==
    Only({ Only({ MeanProduct(s, m, s, m) : m \in {Mean(s)} }) : s \in {xs} })

\* np.std
Std(xs) == Only({ IF IsNaN(v) THEN NaN ELSE ISqrt(v * Scale) : v \in {Variance(xs)} })

\* the correlation of a and b with means ma, mb and deviations sa, sb
CorrFor(a, ma, sa, b, mb, sb) ==
    IF IsNaN(sa) \/ IsNaN(sb) \/ sa = 0 \/ sb = 0 THEN NaN
    ELSE FDiv(MeanProduct(a, ma, b, mb), FMul(sa, sb))

\* np.corrcoef(a, b)[0, 1]: NaN when either series is constant
Corr(xs, ys) ==
    Only({ Only({ CorrFor(v[1], m[1], m[2], v[2], m[3], m[4])
                  : m \in {<< Mean(v[1]), Std(v[1]), Mean(v[2]), Std(v[2]) >>} })
           : v \in {<< xs, ys >>} })

\* the k-th smallest element of s
KthSmallest(s, k) ==
    CHOOSE v \in {s[i] : i \in DOMAIN s} :
        /\ Cardinality({i \in DOMAIN s : s[i] < v}) < k
        /\ Cardinality({i \in DOMAIN s : s[i] <= v}) >= k

\* np.median: the middle element, or the mean of the two middle elements
Median(xs) ==
    Only({ IF Len(s) % 2 = 1 THEN KthSmallest(s, (Len(s) + 1) \div 2)
           ELSE (KthSmallest(s, Len(s) \div 2) + KthSmallest(s, Len(s) \div 2 + 1)) \div 2
           : s \in {xs} })

RECURSIVE Log10Floor(_, _)
Log10Floor(a, b) == IF b * 10 > a THEN 0 ELSE 1 + Log10Floor(a, b * 10)

\* k * np.log10(a / b) for a, b > 0, rounded down to a whole decade
\* (negative when a < b)
LogRatio(k, a, b) ==
    Only({ IF v[1] >= v[2] THEN k * Scale * Log10Floor(v[1], v[2])
           ELSE 0 - k * Scale * (Log10Floor(v[2], v[1]) + 1)
           : v \in {<< a, b >>} })

\* 10 ** (d / 10) for d = 1..9, in units of 1 / Scale
DecibelSteps == << 1259, 1585, 1995, 2512, 3162, 3981, 5012, 6310, 7943 >>

\* 10 * np.log10(a / b) for a >= b > 0, rounded down to a whole decibel
WholeDecibels(a, b) ==
    Only({ 10 * Log10Floor(a, b)
             + Cardinality({ d \in 1..9 : a * Scale >= DecibelSteps[d] * base })
           : base \in {b * 10 ^ Log10Floor(a, b)} })

\* 10 * np.log10(a / b) for a, b > 0, rounded down to a whole decibel when
\* a >= b and to a whole decibel below it when a < b
Decibels(a, b) ==
    Only({ IF v[1] >= v[2] THEN Scale * WholeDecibels(v[1], v[2])
           ELSE 0 - Scale * (WholeDecibels(v[2], v[1]) + 1)
           : v \in {<< a, b >>} })

\* s[-n:] of a Python list
LastN(s, n) == IF Len(s) <= n THEN s ELSE SubSeq(s, Len(s) - n + 1, Len(s))

\* list.append with no eviction: what the buffers would do without the
\* `if len(...) > self.buffer_size: pop(0)` that follows each append
AppendUncapped(s, x, cap) == Append(s, x)

\* a ring that overwrites its first slot once it holds cap entries
AppendCircular(s, x, cap) ==
    IF Len(s) + 1 > cap /\ Len(s) > 0 THEN [s EXCEPT ![1] = x] ELSE Append(s, x)

\* a record that would skip the entries that are 0, such as the noise
\* estimate of a sample that has none
AppendNonZero(s, x, cap) ==
    IF x = 0 THEN s
    ELSE IF Len(s) + 1 > cap THEN Tail(Append(s, x)) ELSE Append(s, x)

\* list.append followed by pop(0) once the list is longer than cap
AppendCapped(s, x, cap) ==
    IF Len(s) + 1 > cap THEN Tail(Append(s, x)) ELSE Append(s, x)

\* ------------------------------------------------------------------------
\* Threads, locks, callbacks
\* ------------------------------------------------------------------------

\* caller threads; MainThread alone drives the sequential specifications
MainThread == "t1"

Threads == {"t1", "t2"}

\* owner of a free threading.Lock
NoThread == "none"

\* a callback attribute: None, or a callable supplied by the caller
NoCallback == "none"

Callbacks == {NoCallback, "callable"}

\* a callable that calls get_performance_summary of the instance whose
\* operation invokes it
ReentrantCallback == "reentrant"

\* ------------------------------------------------------------------------
\* LMSFilter / AdaptiveLMSFilter (lms_filter.py)
\* ------------------------------------------------------------------------

\* default filter_length / initial_filter_length (taps)
DefaultFilterLength == 32

\* default step_size / initial_step_size: 0.01
DefaultStepSize == 10

\* default leakage: 0.999
DefaultLeakage == 999

\* default adaptation_interval of AdaptiveLMSFilter
DefaultAdaptationInterval == 100

\* adaptation_interval DualPathProcessor.__init__ passes
ConstructorAdaptationInterval == 50

\* error_power_history gets one entry per this many samples
HistoryDecimation == 10

\* auto_adjust_parameters does nothing below this sample count
MinAdjustSamples == 100

\* window_size of the performance window
PerformanceWindowSize == 50

Zeros(n) == [i \in 1..n |-> 0]

\* LMSFilter.__init__
LMSFilterNew(filter_length, step_size, leakage) ==
    [ filter_length        |-> filter_length,
      step_size            |-> step_size,
      leakage              |-> leakage,
      weights              |-> Zeros(filter_length),
      reference_buffer     |-> Zeros(filter_length),
      adaptation_history   |-> <<>>,
      error_power_history  |-> <<>>,
      lock                 |-> NoThread,
      sample_count         |-> 0,
      total_error_power    |-> 0,
      noise_reduction_db   |-> 0 ]

\* AdaptiveLMSFilter.__init__: the base fields plus the wrapper's
AdaptiveLMSFilterNew(initial_filter_length, initial_step_size, adaptation_interval) ==
    [ base |-> LMSFilterNew(initial_filter_length, initial_step_size, DefaultLeakage),
      adaptation_interval    |-> adaptation_interval,
      last_adaptation_sample |-> 0,
      performance_window     |-> <<>>,
      window_size            |-> PerformanceWindowSize ]

\* np.dot
Dot(w, x) == SeqSum([i \in 1..Len(w) |-> FMul(w[i], x[i])])

\* a buffer that takes x at its head and shifts nothing out
RollInGrowing(buffer, x) == << x >> \o buffer

\* np.roll(buffer, 1) followed by buffer[0] = x
RollIn(buffer, x) ==
    [i \in 1..Len(buffer) |-> IF i = 1 THEN x ELSE buffer[i - 1]]

\* an update that would run as soon as the history holds 10 entries
NoiseReductionFromTenth(old_db, hist, avg) ==
    IF Len(hist) >= 10
    THEN Only({ IF FGt(avg, 0) /\ FGt(initial_power, 0)
                THEN FMax(0, Decibels(initial_power, avg))
                ELSE old_db
                : initial_power \in {Mean(SubSeq(hist, 1, 10))} })
    ELSE old_db

\* the noise_reduction_db update of LMSFilter.filter_sample, run on each
\* sample that appends avg to the history (hist is the history after it)
NoiseReductionUpdate(old_db, hist, avg) ==
    IF Len(hist) > 10
    THEN Only({ IF FGt(avg, 0) /\ FGt(initial_power, 0)
                THEN FMax(0, Decibels(initial_power, avg))
                ELSE old_db
                : initial_power \in {Mean(SubSeq(hist, 1, 10))} })
    ELSE old_db

\* the statistics part of LMSFilter.filter_sample: count the sample, add
\* its error power and, on every 10th sample, log the average error power
LMSFilterStatistics(f, err) ==
    Only({ Only({ [f EXCEPT !.sample_count = @ + 1,
                            !.total_error_power = total,
                            !.error_power_history =
                                IF (f.sample_count + 1) % HistoryDecimation = 0
                                THEN Append(@, avg) ELSE @,
                            !.noise_reduction_db =
                                IF (f.sample_count + 1) % HistoryDecimation = 0
                                THEN NoiseReductionUpdate(@,
                                         Append(f.error_power_history, avg), avg)
                                ELSE @]
                  : avg \in {IF IsNaN(total) THEN NaN
                             ELSE total \div (f.sample_count + 1)} })
           : total \in {FAdd(f.total_error_power, FMul(err, err))} })

\* the leaky LMS update: leakage * weights + step_size * error * reference
LMSWeights(f, err, rb) ==
    Only({ [i \in 1..Len(f.weights) |->
               FAdd(FMul(f.leakage, f.weights[i]), FMul(gain, rb[i]))]
           : gain \in {FMul(f.step_size, err)} })

\* LMSFilter.filter_sample with the rolled reference buffer rb and the
\* noise estimate dot(weights, rb)
LMSFilterStep(f, main_signal, rb, noise) ==
    Only({ Only({ [ filter         |-> LMSFilterStatistics(g, err),
                    error_signal   |-> err,
                    noise_estimate |-> noise ]
                  : g \in {[f EXCEPT !.reference_buffer = rb,
                                     !.weights = LMSWeights(f, err, rb)]} })
           : err \in {FSub(main_signal, noise)} })

\* LMSFilter.filter_sample, the body run under the filter's lock:
\* the filter after the sample, the error signal and the noise estimate
LMSFilterSample(f, main_signal, reference_signal) ==
    Only({ Only({ LMSFilterStep(f, main_signal, rb, noise)
                  : noise \in {Dot(f.weights, rb)} })
           : rb \in {RollIn(f.reference_buffer, reference_signal)} })

\* a reset that would clear the counters and keep the logged history
LMSFilterResetKeepingHistory(f) ==
    [f EXCEPT !.weights = Zeros(f.filter_length),
              !.reference_buffer = Zeros(f.filter_length),
              !.sample_count = 0,
              !.total_error_power = 0,
              !.noise_reduction_db = 0]

\* LMSFilter.reset, the body run under the filter's lock
LMSFilterReset(f) ==
    [f EXCEPT !.weights = Zeros(f.filter_length),
              !.reference_buffer = Zeros(f.filter_length),
              !.adaptation_history = <<>>,
              !.error_power_history = <<>>,
              !.sample_count = 0,
              !.total_error_power = 0,
              !.noise_reduction_db = 0]

\* AdaptiveLMSFilter inherits reset: the wrapper's own fields are untouched
AdaptiveLMSFilterReset(a) == [a EXCEPT !.base = LMSFilterReset(a.base)]

\* np.max(np.abs(w))
MaxAbs(w) == CHOOSE v \in {FAbs(w[i]) : i \in DOMAIN w} :
                 \A j \in DOMAIN w : FAbs(w[j]) <= v

\* the dictionary of get_performance_metrics, given the average error power
\* and the weight energy
PerformanceMetrics(f, avg, weight_energy) ==
    [ sample_count        |-> f.sample_count,
      average_error_power |-> avg,
      noise_reduction_db  |-> f.noise_reduction_db,
      is_converged        |->
          IF Len(f.error_power_history) >= 20
          THEN FLt(Variance(LastN(f.error_power_history, 20)), FMul(avg, 10))
          ELSE FALSE,
      weight_energy       |-> weight_energy,
      step_size           |-> f.step_size,
      leakage_factor      |-> f.leakage,
      filter_length       |-> f.filter_length,
      max_weight          |-> MaxAbs(f.weights),
      stability_index     |-> FDiv(Scale, FAdd(Scale, weight_energy)) ]

\* LMSFilter.get_performance_metrics, the body run under the filter's lock
GetPerformanceMetrics(f) ==
    Only({ PerformanceMetrics(f, v[1], v[2])
           : v \in {<< IF IsNaN(f.total_error_power) THEN NaN
                       ELSE f.total_error_power
                            \div (IF f.sample_count < 1 THEN 1 ELSE f.sample_count),
                       Dot(f.weights, f.weights) >>} })

\* the wrapper's part of AdaptiveLMSFilter.filter_sample, r being what
\* super().filter_sample returned
AdaptiveFilterStep(a, t, r, due, stuck) ==
    [ filter |-> [a EXCEPT !.base = IF stuck THEN [r.filter EXCEPT !.lock = t]
                                    ELSE r.filter,
                           !.performance_window =
                               AppendCapped(@, FAbs(r.error_signal), a.window_size),
                           !.last_adaptation_sample =
                               IF due /\ ~stuck THEN r.filter.sample_count ELSE @],
      error_signal   |-> r.error_signal,
      noise_estimate |-> r.noise_estimate,
      blocked        |-> stuck ]

\* the periodic adaptation is due after this sample
AdaptationDue(a, count) == count - a.last_adaptation_sample >= a.adaptation_interval

\* AdaptiveLMSFilter.filter_sample as far as one thread t can run it when the
\* filter's lock is free at the call:
\*   1. super().filter_sample under the lock, which is then released;
\*   2. the performance window gets |filtered|, capped at window_size;
\*   3. once adaptation_interval samples have passed, auto_adjust_parameters
\*      takes the lock: below MinAdjustSamples it returns at once and
\*      last_adaptation_sample is set; otherwise it calls
\*      get_performance_metrics, whose `with self._lock` waits for the lock
\*      auto_adjust_parameters itself holds (blocked = TRUE, lock = t).
AdaptiveFilterSample(a, t, main_signal, reference_signal) ==
    Only({ AdaptiveFilterStep(a, t, r,
               AdaptationDue(a, r.filter.sample_count),
               AdaptationDue(a, r.filter.sample_count)
                   /\ r.filter.sample_count >= MinAdjustSamples)
           : r \in {LMSFilterSample(a.base, main_signal, reference_signal)} })

\* AdaptiveLMSFilter.get_adaptive_metrics
GetAdaptiveMetrics(a) ==
    [ base |-> GetPerformanceMetrics(a.base),
      adaptation_interval      |-> a.adaptation_interval,
      samples_since_adaptation |-> a.base.sample_count - a.last_adaptation_sample,
      coefficient_of_variation |->
          IF Len(a.performance_window) > 10 /\ FGt(Mean(a.performance_window), 0)
          THEN FDiv(Std(a.performance_window), Mean(a.performance_window))
          ELSE 0,
      performance_window_size  |-> Len(a.performance_window) ]

\* ------------------------------------------------------------------------
\* DualPathProcessor (dual_path_processor.py): constants and state
\* ------------------------------------------------------------------------

\* NoiseSuppressionMode values
Modes == {"ratio", "difference", "lms_adaptive", "hybrid", "norm_ratio"}

\* the modes that own an AdaptiveLMSFilter
EngineModes == {"lms_adaptive", "hybrid"}

\* self.calibration_samples
calibration_samples == 100

\* calibrate rejects fewer samples than this
MinCalibrationSamples == 10

\* self.smoothing_factor: 0.95
smoothing_factor == 950

\* the 1e-12 guard against division by zero, below the model's resolution
Epsilon == 0

\* calibrate keeps difference_coefficient only above this |correlation|: 0.1
MinCorrelation == 100

\* window of _update_statistics and of the normalized-ratio means
StatisticsWindow == 10

\* window of the correlation statistic
CorrelationWindow == 20

VARIABLES
    suppression_mode,         \* self.suppression_mode
    buffer_size,              \* self.buffer_size
    enable_auto_calibration,  \* self.enable_auto_calibration
    main_buffer,              \* self.main_buffer
    reference_buffer,         \* self.reference_buffer
    output_buffer,            \* self.output_buffer
    noise_buffer,             \* self.noise_buffer
    calibration_ratio,        \* self.calibration_ratio
    difference_coefficient,   \* self.difference_coefficient
    lms_filter,               \* self.lms_filter: <<>> is None, <<f>> the filter f
    sample_count,             \* self.sample_count
    statistics,               \* self.statistics
    lock,                     \* owner of self._lock, or NoThread
    status_callback,          \* self.status_callback
    data_callback,            \* self.data_callback
    pc,                       \* where each thread is in its current call
    local,                    \* each thread's arguments, locals and last result
    calls,                    \* public calls the callers have yet to make
    processors,               \* MultiChannelProcessor.processors
    channel_roles,            \* MultiChannelProcessor.channel_roles
    processing_graph,         \* MultiChannelProcessor.processing_graph
    router_lock,              \* owner of MultiChannelProcessor._lock, or NoThread
    router_local,             \* each thread's locals inside a MultiChannelProcessor call
    engine                    \* a filter used on its own: <<>> is none, <<f>> the filter f

vars == << suppression_mode, buffer_size, enable_auto_calibration, main_buffer,
           reference_buffer, output_buffer, noise_buffer, calibration_ratio,
           difference_coefficient, lms_filter, sample_count, statistics, lock,
           status_callback, data_callback, pc, local, calls,
           processors, channel_roles, processing_graph, router_lock, router_local,
           engine >>

\* the state of the MultiChannelProcessor
router == << processors, channel_roles, processing_graph, router_lock, router_local >>

\* the state of the one DualPathProcessor that callers use directly
suppressor == << suppression_mode, buffer_size, enable_auto_calibration, main_buffer,
                 reference_buffer, output_buffer, noise_buffer, calibration_ratio,
                 difference_coefficient, lms_filter, sample_count, statistics, lock,
                 status_callback, data_callback, local >>

config == << buffer_size, enable_auto_calibration >>

buffers == << main_buffer, reference_buffer, output_buffer, noise_buffer >>

calibration == << calibration_ratio, difference_coefficient >>

callbacks == << status_callback, data_callback >>

\* the statistics dictionary of __init__ and of reset
ZeroStatistics ==
    [ snr_improvement         |-> 0,
      noise_reduction_ratio   |-> 0,
      correlation_coefficient |-> 0,
      signal_stability        |-> 0,
      processing_efficiency   |-> 0 ]

\* no value: a call that has not returned one
NoValue == [ kind |-> "none" ]

\* a thread between calls, before its first call
IdleLocal ==
    [ op                |-> "none",     \* the public operation last called
      new_mode          |-> "none",     \* update_mode's argument
      main_samples      |-> <<>>,       \* calibrate's arguments
      reference_samples |-> <<>>,
      nested            |-> FALSE,      \* calibrate was called by process_sample
      main_signal       |-> 0,          \* process_sample's arguments
      reference_signal  |-> 0,
      new_status        |-> NoCallback, \* set_callbacks' arguments
      new_data          |-> NoCallback,
      processed         |-> 0,          \* process_sample's result in the making
      info              |-> NoValue,
      returned          |-> "none",     \* "none" (no return yet), "None", "True", "False", "value"
      value             |-> NoValue,    \* the value returned with "value"
      raised            |-> "none",     \* the exception the call ended with
      notified          |-> 0,          \* callback invocations made by the call
      callback_raised   |-> "none",     \* the exception the invoked callback raised
      callback_args     |-> <<>>,       \* the arguments the data callback was invoked with
      mutated           |-> FALSE,      \* the caller has changed the value it got back
      before            |-> <<>> ]      \* calibrate: the calibration state at the call

\* the filter __init__ creates: one with adaptation_interval=50 for the two
\* engine modes, else None
ConstructedFilter(mode) ==
    IF mode \in EngineModes
    THEN << AdaptiveLMSFilterNew(DefaultFilterLength, DefaultStepSize,
                                 ConstructorAdaptationInterval) >>
    ELSE <<>>

\* DualPathProcessor.__init__
Construct(mode, size, auto) ==
    /\ suppression_mode = mode
    /\ buffer_size = size
    /\ enable_auto_calibration = auto
    /\ main_buffer = <<>>
    /\ reference_buffer = <<>>
    /\ output_buffer = <<>>
    /\ noise_buffer = <<>>
    /\ calibration_ratio = Scale
    /\ difference_coefficient = Scale
    /\ lms_filter = ConstructedFilter(mode)
    /\ sample_count = 0
    /\ statistics = ZeroStatistics
    /\ lock = NoThread
    /\ status_callback = NoCallback
    /\ data_callback = NoCallback
    /\ pc = [t \in Threads |-> "idle"]
    /\ local = [t \in Threads |-> IdleLocal]

\* a thread between calls makes its next call
Begin(t) ==
    /\ pc[t] = "idle"
    /\ calls > 0
    /\ calls' = calls - 1

\* a thread starts the public operation op: the last call's results are gone
Enter(t, op) == [IdleLocal EXCEPT !.op = op]

\* what invoking a callback attribute can do to the invoking call: a
\* callable returns ("none") or raises; None is not callable; a callable
\* that calls get_performance_summary of the instance is inside that call
\* ("blocked") until the instance's lock is free
InvokeOutcomes(cb) ==
    IF cb = NoCallback THEN {"TypeError"}
    ELSE IF cb = ReentrantCallback THEN {"blocked"}
    ELSE {"none", "CallbackError"}

\* a lock that would be released when the callback returns and kept
\* when it raises
LockKeptOnRaise(t, outcome) == IF outcome = "none" THEN NoThread ELSE t

\* the holder of the instance's lock once the callback invoked by thread t
\* inside `with self._lock` had this outcome: the block is left, and the
\* lock released, when the callback returns and when it raises
LockAfterInvoke(t, outcome) == IF outcome = "blocked" THEN t ELSE NoThread

\* where the invoking thread is then: back from the operation (at done), or
\* at the `with self._lock` of the get_performance_summary its callback calls
PcAfterInvoke(outcome, done) == IF outcome = "blocked" THEN "gps_lock" ELSE done

\* the filter's lock is free (or there is no filter)
EngineLockFree ==
    IF lms_filter = <<>> THEN TRUE ELSE lms_filter[1].base.lock = NoThread

\* ------------------------------------------------------------------------
\* set_callbacks: two attribute assignments, no lock
\* ------------------------------------------------------------------------

CallSetCallbacks(t, status_cb, data_cb) ==
    /\ Begin(t)
    /\ UNCHANGED << router, engine >>
    /\ status_callback' = status_cb
    /\ pc' = [pc EXCEPT ![t] = "sc_data"]
    /\ local' = [local EXCEPT ![t] = [Enter(t, "set_callbacks") EXCEPT
                                         !.new_status = status_cb,
                                         !.new_data = data_cb]]
    /\ UNCHANGED << suppression_mode, config, buffers, calibration, lms_filter,
                    sample_count, statistics, lock, data_callback >>

SetCallbacksData(t) ==
    /\ calls' = calls
    /\ UNCHANGED << router, engine >>
    /\ pc[t] = "sc_data"
    /\ data_callback' = local[t].new_data
    /\ pc' = [pc EXCEPT ![t] = "idle"]
    /\ local' = [local EXCEPT ![t].returned = "None"]
    /\ UNCHANGED << suppression_mode, config, buffers, calibration, lms_filter,
                    sample_count, statistics, lock, status_callback >>

\* ------------------------------------------------------------------------
\* update_mode
\* ------------------------------------------------------------------------

\* an update_mode that would build a new filter on every switch into an
\* engine mode, dropping the state the old one has accumulated
UpdateModeFilterRecreating(new_mode, filter) ==
    IF new_mode \in EngineModes
    THEN << AdaptiveLMSFilterNew(DefaultFilterLength, DefaultStepSize,
                                 DefaultAdaptationInterval) >>
    ELSE <<>>

\* the filter update_mode leaves: created with the defaults when an engine
\* mode finds none, dropped by any other mode, otherwise kept
UpdateModeFilter(new_mode, filter) ==
    IF new_mode \in EngineModes
    THEN IF filter = <<>>
         THEN << AdaptiveLMSFilterNew(DefaultFilterLength, DefaultStepSize,
                                      DefaultAdaptationInterval) >>
         ELSE filter
    ELSE <<>>

CallUpdateMode(t, new_mode) ==
    /\ Begin(t)
    /\ UNCHANGED << router, engine >>
    /\ pc' = [pc EXCEPT ![t] = "um_lock"]
    /\ local' = [local EXCEPT ![t] = [Enter(t, "update_mode") EXCEPT !.new_mode = new_mode]]
    /\ UNCHANGED << suppression_mode, config, buffers, calibration, lms_filter,
                    sample_count, statistics, lock, callbacks >>

\* `with self._lock:` up to the test of self.status_callback
UpdateModeLocked(t) ==
    /\ calls' = calls
    /\ UNCHANGED << router, engine >>
    /\ pc[t] = "um_lock"
    /\ lock = NoThread
    /\ suppression_mode' = local[t].new_mode
    /\ lms_filter' = UpdateModeFilter(local[t].new_mode, lms_filter)
    /\ IF status_callback # NoCallback
       THEN /\ lock' = t
            /\ pc' = [pc EXCEPT ![t] = "um_notify"]
            /\ local' = local
       ELSE /\ lock' = NoThread
            /\ pc' = [pc EXCEPT ![t] = "idle"]
            /\ local' = [local EXCEPT ![t].returned = "None"]
    /\ UNCHANGED << config, buffers, calibration, sample_count, statistics, callbacks >>

\* self.status_callback(...), then the lock is released; an exception of the
\* callback leaves update_mode through the `with` block
UpdateModeNotify(t) ==
    /\ calls' = calls
    /\ UNCHANGED << router, engine >>
    /\ pc[t] = "um_notify"
    /\ \E outcome \in InvokeOutcomes(status_callback) :
           /\ lock' = LockAfterInvoke(t, outcome)
           /\ pc' = [pc EXCEPT ![t] = PcAfterInvoke(outcome, "idle")]
           /\ local' = IF outcome = "blocked"
                       THEN [local EXCEPT ![t].notified = @ + 1]
                       ELSE [local EXCEPT ![t].notified = @ + 1,
                                  ![t].callback_raised = outcome,
                                  ![t].raised = outcome,
                                  ![t].returned = IF outcome = "none" THEN "None" ELSE "none"]
    /\ UNCHANGED << suppression_mode, config, buffers, calibration, lms_filter,
                    sample_count, statistics, callbacks >>

\* ------------------------------------------------------------------------
\* calibrate
\* ------------------------------------------------------------------------

\* a length check that would only compare the two lengths, without the
\* minimum of 10 samples
LengthsMatchOnly(main_samples, reference_samples) ==
    Len(main_samples) = Len(reference_samples)

\* the check before the lock is taken: equal lengths, at least 10 samples
CalibrationInputOk(main_samples, reference_samples) ==
    ~(Len(main_samples) # Len(reference_samples)
      \/ Len(main_samples) < MinCalibrationSamples)

\* main_array[valid_indices] / ref_array[valid_indices]
ValidRatios(main_samples, reference_samples) ==
    SelectSeq([i \in 1..Len(reference_samples) |->
                  IF reference_samples[i] # 0
                  THEN FDiv(main_samples[i], reference_samples[i]) ELSE NaN],
              LAMBDA x : ~IsNaN(x))

\* the new calibration_ratio: the median of main/ref over the non-zero
\* references when more than half are non-zero, else mean(main)/mean(ref)
CalibrationRatioOf(main_samples, reference_samples) ==
    IF Cardinality({i \in DOMAIN reference_samples : reference_samples[i] # 0})
           > Len(reference_samples) \div 2
    THEN Median(ValidRatios(main_samples, reference_samples))
    ELSE FDiv(Mean(main_samples), Mean(reference_samples))

\* the difference_coefficient for the correlation c
DifferenceCoefficientFor(main_samples, reference_samples, c) ==
    IF FGt(FAbs(c), MinCorrelation)
    THEN FMul(FDiv(Std(main_samples), Std(reference_samples)), c)
    ELSE Scale

\* the new difference_coefficient: (std(main)/std(ref)) * corr when
\* |corr| > 0.1, else 1.0
DifferenceCoefficientOf(main_samples, reference_samples) ==
    Only({ DifferenceCoefficientFor(main_samples, reference_samples, c)
           : c \in {Corr(main_samples, reference_samples)} })

\* the new correlation_coefficient statistic: abs(corr)
CalibrationCorrelationOf(main_samples, reference_samples) ==
    FAbs(Corr(main_samples, reference_samples))

\* where calibrate returns to: process_sample when it was called from there
AfterCalibrate(t) == IF local[t].nested THEN "ps_mode" ELSE "idle"

\* the length check, made before the lock is taken
CallCalibrate(t, main_samples, reference_samples) ==
    /\ Begin(t)
    /\ UNCHANGED << router, engine >>
    /\ LET l == [Enter(t, "calibrate") EXCEPT
                    !.main_samples = main_samples,
                    !.reference_samples = reference_samples,
                    !.before = << calibration_ratio, difference_coefficient,
                                  statistics.correlation_coefficient >>]
       IN  IF CalibrationInputOk(main_samples, reference_samples)
           THEN /\ pc' = [pc EXCEPT ![t] = "cal_lock"]
                /\ local' = [local EXCEPT ![t] = l]
           ELSE /\ pc' = pc
                /\ local' = [local EXCEPT ![t] = [l EXCEPT !.returned = "False"]]
    /\ UNCHANGED << suppression_mode, config, buffers, calibration, lms_filter,
                    sample_count, statistics, lock, callbacks >>

\* `with self._lock:` up to the test of self.status_callback.  The lock is
\* not reentrant: a calibrate that process_sample calls while it holds the
\* lock (local[t].nested) waits here for the lock its own thread holds
CalibrateLocked(t) ==
    /\ calls' = calls
    /\ UNCHANGED << router, engine >>
    /\ pc[t] = "cal_lock"
    /\ lock = NoThread
    /\ calibration_ratio' =
           CalibrationRatioOf(local[t].main_samples, local[t].reference_samples)
    /\ difference_coefficient' =
           DifferenceCoefficientOf(local[t].main_samples, local[t].reference_samples)
    /\ statistics' = [statistics EXCEPT !.correlation_coefficient =
           CalibrationCorrelationOf(local[t].main_samples, local[t].reference_samples)]
    /\ IF status_callback # NoCallback
       THEN /\ lock' = t
            /\ pc' = [pc EXCEPT ![t] = "cal_notify"]
            /\ local' = local
       ELSE /\ lock' = NoThread
            /\ pc' = [pc EXCEPT ![t] = AfterCalibrate(t)]
            /\ local' = [local EXCEPT ![t].returned = "True"]
    /\ UNCHANGED << suppression_mode, config, buffers, lms_filter, sample_count,
                    callbacks >>

\* what calibrate returns once the status callback has been invoked: the
\* `except Exception` around the whole block turns any exception into False
CalibrateNotifyResult(outcome) == IF outcome = "none" THEN "True" ELSE "False"

\* self.status_callback(...) inside try/except, then the lock is released
CalibrateNotify(t) ==
    /\ calls' = calls
    /\ UNCHANGED << router, engine >>
    /\ pc[t] = "cal_notify"
    /\ \E outcome \in InvokeOutcomes(status_callback) :
           /\ lock' = LockAfterInvoke(t, outcome)
           /\ pc' = [pc EXCEPT ![t] = PcAfterInvoke(outcome, AfterCalibrate(t))]
           /\ local' = IF outcome = "blocked"
                       THEN [local EXCEPT ![t].notified = @ + 1]
                       ELSE [local EXCEPT ![t].notified = @ + 1,
                                  ![t].callback_raised = outcome,
                                  ![t].returned = CalibrateNotifyResult(outcome)]
    /\ UNCHANGED << suppression_mode, config, buffers, calibration, lms_filter,
                    sample_count, statistics, callbacks >>

\* ------------------------------------------------------------------------
\* process_sample
\* ------------------------------------------------------------------------

\* the three LMS-only entries of the processing info, absent by default
NoLmsInfo ==
    [ present |-> FALSE, lms_converged |-> FALSE, lms_stability |-> 0,
      lms_noise_reduction |-> 0 ]

\* the ratio method's output: main / ref * calibration_ratio, or main when
\* the reference is (nearly) zero
RatioResult(main_signal, reference_signal, ratio) ==
    IF FGt(FAbs(reference_signal), Epsilon)
    THEN FMul(FDiv(main_signal, reference_signal), ratio)
    ELSE main_signal

\* main / ((main / main_mean) / (reference / ref_mean)), the ratio being
\* 1.0 when the normalized reference is (nearly) zero
NormalizedBy(main_signal, reference_signal, main_mean, normalized_ref) ==
    FDiv(main_signal,
         IF FGt(FAbs(normalized_ref), Epsilon)
         THEN FDiv(FDiv(main_signal, main_mean), normalized_ref)
         ELSE Scale)

\* the normalized-ratio method's output for the two window means
NormalizedRatioFor(main_signal, reference_signal, main_mean, ref_mean) ==
    IF FGt(FAbs(ref_mean), Epsilon) /\ FGt(FAbs(main_mean), Epsilon)
    THEN NormalizedBy(main_signal, reference_signal, main_mean,
                      FDiv(reference_signal, ref_mean))
    ELSE main_signal

\* the normalized-ratio method's output, from the last 10 buffered values
NormalizedRatioResult(main_signal, reference_signal, mains, refs) ==
    IF Len(refs) > StatisticsWindow
    THEN Only({ NormalizedRatioFor(main_signal, reference_signal, m[1], m[2])
                : m \in {<< Mean(LastN(mains, StatisticsWindow)),
                            Mean(LastN(refs, StatisticsWindow)) >>} })
    ELSE main_signal

\* what a mode without a filter yields: output p, noise estimate n
Unfiltered(p, n) ==
    [ processed |-> p, noise |-> n, filter |-> lms_filter,
      lms |-> NoLmsInfo, blocked |-> FALSE ]

\* processing_info.update(...) with the filter's adaptive metrics m
LmsInfo(m) ==
    [ present |-> TRUE,
      lms_converged |-> m.base.is_converged,
      lms_stability |-> m.base.stability_index,
      lms_noise_reduction |-> m.base.noise_reduction_db ]

\* what a mode with a filter yields, r being what filter_sample did
Filtered(r, noise, lms) ==
    [ processed |-> r.error_signal, noise |-> noise, filter |-> << r.filter >>,
      lms |-> lms, blocked |-> r.blocked ]

\* the LMS_ADAPTIVE branch with a filter
LmsAdaptiveResult(t, main_signal, reference_signal) ==
    Only({ Filtered(r, r.noise_estimate,
                    IF r.blocked THEN NoLmsInfo
                    ELSE LmsInfo(GetAdaptiveMetrics(r.filter)))
           : r \in {AdaptiveFilterSample(lms_filter[1], t, main_signal,
                                         reference_signal)} })

\* the HYBRID branch with a filter: the filter runs on the ratio result
HybridResult(t, main_signal, reference_signal) ==
    Only({ Filtered(r, FSub(main_signal, r.error_signal), NoLmsInfo)
           : r \in {AdaptiveFilterSample(lms_filter[1], t,
                        RatioResult(main_signal, reference_signal, calibration_ratio),
                        reference_signal)} })

\* the RATIO branch
RatioModeResult(main_signal, reference_signal) ==
    Only({ Unfiltered(p, IF FGt(FAbs(reference_signal), Epsilon)
                         THEN FSub(main_signal, p) ELSE 0)
           : p \in {RatioResult(main_signal, reference_signal, calibration_ratio)} })

\* _process_by_mode up to the smoothing: the mode's raw output, its noise
\* estimate, the filter after the sample, the LMS info, and whether the
\* thread is left waiting inside the filter (AdaptiveFilterSample)
ModeResult(t, main_signal, reference_signal) ==
    CASE suppression_mode = "ratio" ->
             RatioModeResult(main_signal, reference_signal)
      [] suppression_mode = "norm_ratio" ->
             Only({ Unfiltered(p, FSub(main_signal, p))
                    : p \in {NormalizedRatioResult(main_signal, reference_signal,
                                                   main_buffer, reference_buffer)} })
      [] suppression_mode = "difference" ->
             Only({ Unfiltered(FSub(main_signal, n), n)
                    : n \in {FMul(difference_coefficient, reference_signal)} })
      [] suppression_mode = "lms_adaptive" ->
             IF lms_filter # <<>>
             THEN LmsAdaptiveResult(t, main_signal, reference_signal)
             ELSE Unfiltered(main_signal, 0)
      [] suppression_mode = "hybrid" ->
             IF lms_filter # <<>>
             THEN HybridResult(t, main_signal, reference_signal)
             ELSE Only({ Unfiltered(p, FSub(main_signal, p))
                         : p \in {RatioResult(main_signal, reference_signal,
                                              calibration_ratio)} })

\* the exponential smoothing against the last recorded output, if any
Smoothed(raw, outputs) ==
    IF Len(outputs) > 0
    THEN FAdd(FMul(smoothing_factor, outputs[Len(outputs)]),
              FMul(Scale - smoothing_factor, raw))
    ELSE raw

\* processing_info['suppression_gain']
SuppressionGain(main_signal, noise) ==
    IF FGt(FAbs(main_signal), Epsilon)
    THEN FDiv(FAbs(noise), FAbs(main_signal))
    ELSE 0

\* the processing_info dictionary
ProcessingInfo(main_signal, r) ==
    [ mode             |-> suppression_mode,
      noise_estimate   |-> r.noise,
      suppression_gain |-> SuppressionGain(main_signal, r.noise),
      snr_improvement  |-> 0,
      lms              |-> r.lms ]

Squares(s) == [i \in 1..Len(s) |-> FMul(s[i], s[i])]

\* the four statistics _update_statistics sets, from the window's figures
StatisticsFor(stats, main_std, processed_std, noise_power, signal_power, processed_mean, corr) ==
    [stats EXCEPT
        !.snr_improvement =
            IF FGt(main_std, 0) /\ FGt(processed_std, 0)
            THEN FMax(0, LogRatio(20, main_std, processed_std)) ELSE @,
        !.noise_reduction_ratio =
            IF FGt(signal_power, 0)
            THEN FDiv(noise_power, FAdd(signal_power, noise_power)) ELSE @,
        !.signal_stability =
            IF FGt(processed_std, 0)
            THEN IF FGt(FAbs(processed_mean), 0)
                 THEN FDiv(Scale, FAdd(Scale, FDiv(processed_std, FAbs(processed_mean))))
                 ELSE 0
            ELSE @,
        !.correlation_coefficient = corr]

\* _update_statistics with the three recent windows
WindowStatistics(stats, mains, refs, recent_main, recent_processed, recent_noise) ==
    Only({ StatisticsFor(stats, v[1], v[2], v[3], v[4], v[5], v[6])
           : v \in {<< Std(recent_main),
                       Std(recent_processed),
                       Mean(Squares(recent_noise)),
                       Mean(Squares(recent_processed)),
                       Mean(recent_processed),
                       IF Len(mains) >= CorrelationWindow /\ Len(refs) >= CorrelationWindow
                       THEN FAbs(Corr(LastN(mains, CorrelationWindow),
                                      LastN(refs, CorrelationWindow)))
                       ELSE stats.correlation_coefficient >>} })

\* _update_statistics: mains and refs already hold the sample, noises its
\* noise estimate, outputs not yet its output
UpdateStatistics(stats, mains, refs, outputs, noises, main_signal, processed) ==
    IF Len(mains) < StatisticsWindow THEN stats
    ELSE WindowStatistics(stats, mains, refs,
             LastN(mains, StatisticsWindow),
             Append(LastN(outputs, StatisticsWindow - 1), processed),
             Append(LastN(noises, StatisticsWindow - 1), FSub(main_signal, processed)))

\* the test that triggers calibration from inside process_sample
AutoCalibrationDue(enabled, buffered, count) ==
    enabled /\ buffered = calibration_samples /\ count = calibration_samples

CallProcessSample(t, main_signal, reference_signal) ==
    /\ Begin(t)
    /\ UNCHANGED << router, engine >>
    /\ pc' = [pc EXCEPT ![t] = "ps_lock"]
    /\ local' = [local EXCEPT ![t] = [Enter(t, "process_sample") EXCEPT
                                         !.main_signal = main_signal,
                                         !.reference_signal = reference_signal]]
    /\ UNCHANGED << suppression_mode, config, buffers, calibration, lms_filter,
                    sample_count, statistics, lock, callbacks >>

\* `with self._lock:` up to the call of _process_by_mode: count, append,
\* evict, and the call of calibrate when auto-calibration is due (its length
\* check passes or fails before its own `with self._lock`)
ProcessSampleLocked(t) ==
    /\ calls' = calls
    /\ UNCHANGED << router, engine >>
    /\ pc[t] = "ps_lock"
    /\ lock = NoThread
    /\ lock' = t
    /\ sample_count' = sample_count + 1
    /\ main_buffer' = AppendCapped(main_buffer, local[t].main_signal, buffer_size)
    /\ reference_buffer' = IF Len(main_buffer) + 1 > buffer_size
                           THEN Tail(Append(reference_buffer, local[t].reference_signal))
                           ELSE Append(reference_buffer, local[t].reference_signal)
    /\ IF /\ AutoCalibrationDue(enable_auto_calibration, Len(main_buffer'), sample_count')
          /\ CalibrationInputOk(main_buffer', reference_buffer')
       THEN /\ pc' = [pc EXCEPT ![t] = "cal_lock"]
            /\ local' = [local EXCEPT ![t].nested = TRUE,
                                      ![t].main_samples = main_buffer',
                                      ![t].reference_samples = reference_buffer',
                                      ![t].before = << calibration_ratio,
                                                       difference_coefficient,
                                                       statistics.correlation_coefficient >>]
       ELSE /\ pc' = [pc EXCEPT ![t] = "ps_mode"]
            /\ local' = local
    /\ UNCHANGED << suppression_mode, config, output_buffer, noise_buffer, calibration,
                    lms_filter, statistics, callbacks >>

\* the rest of process_sample once _process_by_mode has yielded r and the
\* smoothed output: the noise record, _update_statistics, the output
\* record, up to the test of self.data_callback
ProcessSampleRecord(t, r, processed) ==
    /\ noise_buffer' = AppendCapped(noise_buffer, r.noise, buffer_size)
    /\ statistics' = UpdateStatistics(statistics, main_buffer, reference_buffer,
                         output_buffer, noise_buffer', local[t].main_signal, processed)
    /\ output_buffer' = AppendCapped(output_buffer, processed, buffer_size)
    /\ IF data_callback # NoCallback
       THEN /\ pc' = [pc EXCEPT ![t] = "ps_notify"]
            /\ lock' = lock
            /\ local' = [local EXCEPT
                   ![t].processed = processed,
                   ![t].info = ProcessingInfo(local[t].main_signal, r)]
       ELSE /\ pc' = [pc EXCEPT ![t] = "idle"]
            /\ lock' = NoThread
            /\ local' = [local EXCEPT
                   ![t].processed = processed,
                   ![t].info = ProcessingInfo(local[t].main_signal, r),
                   ![t].returned = "value",
                   ![t].value = [ kind |-> "sample", processed |-> processed,
                                  info |-> ProcessingInfo(local[t].main_signal, r) ]]

\* _process_by_mode, _update_statistics and the output record, up to the
\* test of self.data_callback; or, when the filter leaves the thread waiting
\* inside auto_adjust_parameters, only the filter's part of it: the thread
\* is then at get_performance_metrics' `with self._lock` ("aap_metrics_lock")
\* with the filter's lock and the instance's lock both held by itself
ProcessByMode(t) ==
    /\ calls' = calls
    /\ UNCHANGED << router, engine >>
    /\ pc[t] = "ps_mode"
    /\ EngineLockFree
    /\ \E r \in {ModeResult(t, local[t].main_signal, local[t].reference_signal)} :
           /\ lms_filter' = r.filter
           /\ IF r.blocked
              THEN /\ pc' = [pc EXCEPT ![t] = "aap_metrics_lock"]
                   /\ UNCHANGED << output_buffer, noise_buffer, statistics, lock, local >>
              ELSE \E processed \in {Smoothed(r.processed, output_buffer)} :
                       ProcessSampleRecord(t, r, processed)
    /\ UNCHANGED << suppression_mode, config, main_buffer, reference_buffer, calibration,
                    sample_count, callbacks >>

\* self.data_callback(processed, info), then the lock is released; an
\* exception of the callback leaves process_sample through the `with` block
ProcessSampleNotify(t) ==
    /\ calls' = calls
    /\ UNCHANGED << router, engine >>
    /\ pc[t] = "ps_notify"
    /\ \E outcome \in InvokeOutcomes(data_callback) :
           /\ lock' = LockAfterInvoke(t, outcome)
           /\ pc' = [pc EXCEPT ![t] = PcAfterInvoke(outcome, "idle")]
           /\ local' = IF outcome = "blocked"
                       THEN [local EXCEPT ![t].notified = @ + 1,
                                   ![t].callback_args = << local[t].processed, local[t].info >>]
                       ELSE [local EXCEPT
               ![t].notified = @ + 1,
               ![t].callback_args = << local[t].processed, local[t].info >>,
               ![t].callback_raised = outcome,
               ![t].raised = outcome,
               ![t].returned = IF outcome = "none" THEN "value" ELSE "none",
               ![t].value = IF outcome = "none"
                            THEN [ kind |-> "sample", processed |-> local[t].processed,
                                   info |-> local[t].info ]
                            ELSE NoValue]
    /\ UNCHANGED << suppression_mode, config, buffers, calibration, lms_filter,
                    sample_count, statistics, callbacks >>

\* ------------------------------------------------------------------------
\* reset
\* ------------------------------------------------------------------------

\* the filter reset() leaves: self.lms_filter.reset() when there is one
ResetFilterDropping(filter) == <<>>

ResetFilter(filter) ==
    IF filter = <<>> THEN <<>> ELSE << AdaptiveLMSFilterReset(filter[1]) >>

CallReset(t) ==
    /\ Begin(t)
    /\ UNCHANGED << router, engine >>
    /\ pc' = [pc EXCEPT ![t] = "rs_lock"]
    /\ local' = [local EXCEPT ![t] = Enter(t, "reset")]
    /\ UNCHANGED << suppression_mode, config, buffers, calibration, lms_filter,
                    sample_count, statistics, lock, callbacks >>

\* `with self._lock:` up to the test of self.status_callback
ResetLocked(t) ==
    /\ calls' = calls
    /\ UNCHANGED << router, engine >>
    /\ pc[t] = "rs_lock"
    /\ lock = NoThread
    /\ EngineLockFree
    /\ main_buffer' = <<>>
    /\ reference_buffer' = <<>>
    /\ output_buffer' = <<>>
    /\ noise_buffer' = <<>>
    /\ sample_count' = 0
    /\ calibration_ratio' = Scale
    /\ difference_coefficient' = Scale
    /\ statistics' = [k \in DOMAIN statistics |-> 0]
    /\ lms_filter' = ResetFilter(lms_filter)
    /\ IF status_callback # NoCallback
       THEN /\ lock' = t
            /\ pc' = [pc EXCEPT ![t] = "rs_notify"]
            /\ local' = local
       ELSE /\ lock' = NoThread
            /\ pc' = [pc EXCEPT ![t] = "idle"]
            /\ local' = [local EXCEPT ![t].returned = "None"]
    /\ UNCHANGED << suppression_mode, config, callbacks >>

\* self.status_callback(...), then the lock is released
ResetNotify(t) ==
    /\ calls' = calls
    /\ UNCHANGED << router, engine >>
    /\ pc[t] = "rs_notify"
    /\ \E outcome \in InvokeOutcomes(status_callback) :
           /\ lock' = LockAfterInvoke(t, outcome)
           /\ pc' = [pc EXCEPT ![t] = PcAfterInvoke(outcome, "idle")]
           /\ local' = IF outcome = "blocked"
                       THEN [local EXCEPT ![t].notified = @ + 1]
                       ELSE [local EXCEPT ![t].notified = @ + 1,
                                  ![t].callback_raised = outcome,
                                  ![t].raised = outcome,
                                  ![t].returned = IF outcome = "none" THEN "None" ELSE "none"]
    /\ UNCHANGED << suppression_mode, config, buffers, calibration, lms_filter,
                    sample_count, statistics, callbacks >>

\* ------------------------------------------------------------------------
\* export_data, get_performance_summary
\* ------------------------------------------------------------------------

\* the dictionary export_data returns
ExportedData ==
    [ kind              |-> "export",
      main_signals      |-> main_buffer,
      reference_signals |-> reference_buffer,
      processed_signals |-> output_buffer,
      noise_estimates   |-> noise_buffer,
      statistics        |-> statistics,
      parameters        |-> [ mode                   |-> suppression_mode,
                              calibration_ratio      |-> calibration_ratio,
                              difference_coefficient |-> difference_coefficient,
                              smoothing_factor       |-> smoothing_factor ] ]

\* the dictionary get_performance_summary returns; lms_metrics is <<>> when
\* there is no filter
PerformanceSummary ==
    [ kind                   |-> "summary",
      mode                   |-> suppression_mode,
      sample_count           |-> sample_count,
      calibration_ratio      |-> calibration_ratio,
      difference_coefficient |-> difference_coefficient,
      buffer_utilization     |-> FDiv(Len(main_buffer) * Scale, buffer_size * Scale),
      statistics             |-> statistics,
      lms_metrics            |-> IF lms_filter = <<>> THEN <<>>
                                 ELSE << GetPerformanceMetrics(lms_filter[1].base) >> ]

CallExportData(t) ==
    /\ Begin(t)
    /\ UNCHANGED << router, engine >>
    /\ pc' = [pc EXCEPT ![t] = "ex_lock"]
    /\ local' = [local EXCEPT ![t] = Enter(t, "export_data")]
    /\ UNCHANGED << suppression_mode, config, buffers, calibration, lms_filter,
                    sample_count, statistics, lock, callbacks >>

\* the whole `with self._lock:` block of export_data
ExportDataLocked(t) ==
    /\ calls' = calls
    /\ UNCHANGED << router, engine >>
    /\ pc[t] = "ex_lock"
    /\ lock = NoThread
    /\ pc' = [pc EXCEPT ![t] = "idle"]
    /\ local' = [local EXCEPT ![t].returned = "value", ![t].value = ExportedData]
    /\ UNCHANGED << suppression_mode, config, buffers, calibration, lms_filter,
                    sample_count, statistics, lock, callbacks >>

\* the entries of the exported dictionary that are the instance's own
\* objects: none, each of the five is made with .copy()
ExportAllAliased ==
    {"main_signals", "reference_signals", "processed_signals", "noise_estimates",
     "statistics"}

ExportAliases == {}

\* what the object behind the entry name of the exported dictionary becomes
\* when the caller appends x to the list it got, or sets every statistic to x
\* in the dictionary it got: own is the instance's object of that entry,
\* which is the one changed when the entry is no copy
AfterCallerWrites(name, own, x) ==
    IF name \notin ExportAliases THEN own
    ELSE IF name = "statistics" THEN [k \in DOMAIN own |-> x]
    ELSE Append(own, x)

\* the caller of export_data changes what it got back: it appends x to each
\* of the four lists and overwrites the statistics
MutateExported(t, x) ==
    /\ calls' = calls
    /\ UNCHANGED << router, engine >>
    /\ pc[t] = "idle"
    /\ local[t].op = "export_data"
    /\ local[t].returned = "value"
    /\ ~local[t].mutated
    /\ local' = [local EXCEPT
           ![t].mutated = TRUE,
           ![t].value = [@ EXCEPT
               !.main_signals = Append(@, x),
               !.reference_signals = Append(@, x),
               !.processed_signals = Append(@, x),
               !.noise_estimates = Append(@, x),
               !.statistics = [k \in DOMAIN @ |-> x]]]
    /\ main_buffer' = AfterCallerWrites("main_signals", main_buffer, x)
    /\ reference_buffer' = AfterCallerWrites("reference_signals", reference_buffer, x)
    /\ output_buffer' = AfterCallerWrites("processed_signals", output_buffer, x)
    /\ noise_buffer' = AfterCallerWrites("noise_estimates", noise_buffer, x)
    /\ statistics' = AfterCallerWrites("statistics", statistics, x)
    /\ UNCHANGED << suppression_mode, config, calibration, lms_filter, sample_count,
                    lock, callbacks, pc >>

CallGetPerformanceSummary(t) ==
    /\ Begin(t)
    /\ UNCHANGED << router, engine >>
    /\ pc' = [pc EXCEPT ![t] = "gps_lock"]
    /\ local' = [local EXCEPT ![t] = Enter(t, "get_performance_summary")]
    /\ UNCHANGED << suppression_mode, config, buffers, calibration, lms_filter,
                    sample_count, statistics, lock, callbacks >>

\* the whole `with self._lock:` block of get_performance_summary, the
\* filter's get_performance_metrics (under the filter's lock) included
PerformanceSummaryLocked(t) ==
    /\ calls' = calls
    /\ UNCHANGED << router, engine >>
    /\ pc[t] = "gps_lock"
    /\ lock = NoThread
    /\ EngineLockFree
    /\ pc' = [pc EXCEPT ![t] = "idle"]
    /\ local' = [local EXCEPT ![t].returned = "value", ![t].value = PerformanceSummary]
    /\ UNCHANGED << suppression_mode, config, buffers, calibration, lms_filter,
                    sample_count, statistics, lock, callbacks >>

\* ------------------------------------------------------------------------
\* A DualPathProcessor as a value: the suppressors a MultiChannelProcessor owns
\* ------------------------------------------------------------------------

\* the default buffer_size of DualPathProcessor.__init__
DefaultBufferSize == 1000

\* DualPathProcessor(suppression_mode), as add_channel constructs it: the
\* default buffer_size and auto-calibration, no callbacks
SuppressorNew(mode) ==
    [ suppression_mode        |-> mode,
      buffer_size             |-> DefaultBufferSize,
      enable_auto_calibration |-> TRUE,
      main_buffer             |-> <<>>,
      reference_buffer        |-> <<>>,
      output_buffer           |-> <<>>,
      noise_buffer            |-> <<>>,
      calibration_ratio       |-> Scale,
      difference_coefficient  |-> Scale,
      lms_filter              |-> ConstructedFilter(mode),
      sample_count            |-> 0,
      statistics              |-> ZeroStatistics ]

\* what a branch of _process_by_mode yields for the suppressor p: output,
\* noise estimate, the filter after it, and whether the thread is left
\* waiting inside the filter
SuppressorBranch(processed, noise, filter, blocked) ==
    [ processed |-> processed, noise |-> noise, filter |-> filter, blocked |-> blocked ]

\* _process_by_mode of the suppressor p up to the smoothing
SuppressorModeResult(p, t, main_signal, reference_signal) ==
    CASE p.suppression_mode = "ratio" ->
             Only({ SuppressorBranch(v, IF FGt(FAbs(reference_signal), Epsilon)
                                        THEN FSub(main_signal, v) ELSE 0,
                                     p.lms_filter, FALSE)
                    : v \in {RatioResult(main_signal, reference_signal,
                                         p.calibration_ratio)} })
      [] p.suppression_mode = "norm_ratio" ->
             Only({ SuppressorBranch(v, FSub(main_signal, v), p.lms_filter, FALSE)
                    : v \in {NormalizedRatioResult(main_signal, reference_signal,
                                                   p.main_buffer, p.reference_buffer)} })
      [] p.suppression_mode = "difference" ->
             Only({ SuppressorBranch(FSub(main_signal, n), n, p.lms_filter, FALSE)
                    : n \in {FMul(p.difference_coefficient, reference_signal)} })
      [] p.suppression_mode = "lms_adaptive" ->
             IF p.lms_filter # <<>>
             THEN Only({ SuppressorBranch(r.error_signal, r.noise_estimate,
                                          << r.filter >>, r.blocked)
                         : r \in {AdaptiveFilterSample(p.lms_filter[1], t, main_signal,
                                                       reference_signal)} })
             ELSE SuppressorBranch(main_signal, 0, p.lms_filter, FALSE)
      [] p.suppression_mode = "hybrid" ->
             IF p.lms_filter # <<>>
             THEN Only({ SuppressorBranch(r.error_signal,
                                          FSub(main_signal, r.error_signal),
                                          << r.filter >>, r.blocked)
                         : r \in {AdaptiveFilterSample(p.lms_filter[1], t,
                                      RatioResult(main_signal, reference_signal,
                                                  p.calibration_ratio),
                                      reference_signal)} })
             ELSE Only({ SuppressorBranch(v, FSub(main_signal, v), p.lms_filter, FALSE)
                         : v \in {RatioResult(main_signal, reference_signal,
                                              p.calibration_ratio)} })

\* process_sample up to the call of _process_by_mode: count, append, evict
SuppressorAppend(p, main_signal, reference_signal) ==
    [p EXCEPT !.sample_count = @ + 1,
              !.main_buffer = AppendCapped(@, main_signal, p.buffer_size),
              !.reference_buffer = IF Len(p.main_buffer) + 1 > p.buffer_size
                                   THEN Tail(Append(@, reference_signal))
                                   ELSE Append(@, reference_signal)]

\* process_sample after _process_by_mode yielded r and the smoothed output:
\* the noise record, _update_statistics, the output record, the return value
SuppressorRecord(q, r, main_signal, processed) ==
    [ processor |-> [q EXCEPT
          !.lms_filter = r.filter,
          !.noise_buffer = AppendCapped(@, r.noise, q.buffer_size),
          !.statistics = UpdateStatistics(@, q.main_buffer, q.reference_buffer,
                             q.output_buffer,
                             AppendCapped(q.noise_buffer, r.noise, q.buffer_size),
                             main_signal, processed),
          !.output_buffer = AppendCapped(@, processed, q.buffer_size)],
      processed |-> processed,
      blocked   |-> FALSE ]

\* process_sample once the sample is in the buffers (q): the call of calibrate
\* on the calibration_samples-th sample, once past its input checks, and a
\* filter that does not return both leave the thread waiting inside the call
\* (blocked)
SuppressorProcess(q, t, main_signal, reference_signal) ==
    IF /\ AutoCalibrationDue(q.enable_auto_calibration, Len(q.main_buffer), q.sample_count)
       /\ CalibrationInputOk(q.main_buffer, q.reference_buffer)
    THEN [ processor |-> q, processed |-> 0, blocked |-> TRUE ]
    ELSE Only({ IF r.blocked
                THEN [ processor |-> [q EXCEPT !.lms_filter = r.filter],
                       processed |-> 0, blocked |-> TRUE ]
                ELSE Only({ SuppressorRecord(q, r, main_signal, processed)
                            : processed \in {Smoothed(r.processed, q.output_buffer)} })
                : r \in {SuppressorModeResult(q, t, main_signal, reference_signal)} })

\* DualPathProcessor.process_sample of the suppressor p, called by thread t
\* with no other thread using p: the suppressor after the call, the processed
\* signal it returns, and whether the call is left waiting
SuppressorProcessSample(p, t, main_signal, reference_signal) ==
    Only({ SuppressorProcess(q, t, main_signal, reference_signal)
           : q \in {SuppressorAppend(p, main_signal, reference_signal)} })

\* ------------------------------------------------------------------------
\* MultiChannelProcessor
\* ------------------------------------------------------------------------

\* the channel ids callers use
Channels == {"A", "B", "C"}

\* a dictionary without keys
EmptyMap == [c \in {} |-> 0]

\* d[k] = v on the dictionary d
Put(d, k, v) == [c \in DOMAIN d \cup {k} |-> IF c = k THEN v ELSE d[c]]

\* a thread's arguments, locals and last result in a MultiChannelProcessor call
IdleRouterLocal ==
    [ op             |-> "none",    \* the public operation last called
      channel_id     |-> "none",    \* add_channel's arguments
      role           |-> "none",
      mode           |-> "none",
      main_channel   |-> "none",    \* setup_processing_pair's arguments
      ref_channel    |-> "none",
      channel_data   |-> EmptyMap,  \* process_multi_sample's argument
      processed_data |-> EmptyMap,  \* its result in the making
      position       |-> 0,         \* the item of processing_graph.items() it is at
      graph_seen     |-> <<>>,      \* processing_graph and processors as they
      processors_seen |-> <<>>,     \* were when the call took the lock
      invoked        |-> <<>>,      \* the process_sample calls it made
      returned       |-> "none",    \* "none" (no return yet), "None", "value"
      value          |-> EmptyMap ] \* the dictionary returned with "value"

\* MultiChannelProcessor.__init__
RouterConstruct ==
    /\ processors = [c \in Channels |-> <<>>]
    /\ channel_roles = [c \in Channels |-> "none"]
    /\ processing_graph = <<>>
    /\ router_lock = NoThread
    /\ router_local = [t \in Threads |-> IdleRouterLocal]

\* `with self._lock:` of the MultiChannelProcessor can be entered
RouterLockIgnored == TRUE

RouterLockFree == router_lock = NoThread

\* the position of main_channel's item in processing_graph, 0 if it has none
GraphIndex(graph, main_channel) ==
    IF \E i \in 1..Len(graph) : graph[i].main = main_channel
    THEN CHOOSE i \in 1..Len(graph) : graph[i].main = main_channel
    ELSE 0

CallAddChannel(t, channel_id, role, mode) ==
    /\ Begin(t)
    /\ pc' = [pc EXCEPT ![t] = "ac_lock"]
    /\ router_local' = [router_local EXCEPT ![t] =
           [IdleRouterLocal EXCEPT !.op = "add_channel", !.channel_id = channel_id,
                                   !.role = role, !.mode = mode]]
    /\ UNCHANGED << processors, channel_roles, processing_graph, router_lock,
                    suppressor, engine >>

\* add_channel's `with self._lock:` block: a new suppressor and the role,
\* for a channel id that has none yet
AddChannelLocked(t) ==
    /\ calls' = calls
    /\ pc[t] = "ac_lock"
    /\ RouterLockFree
    /\ pc' = [pc EXCEPT ![t] = "idle"]
    /\ IF processors[router_local[t].channel_id] = <<>>
       THEN /\ processors' = [processors EXCEPT ![router_local[t].channel_id] =
                                  << SuppressorNew(router_local[t].mode) >>]
            /\ channel_roles' = [channel_roles EXCEPT ![router_local[t].channel_id] =
                                     router_local[t].role]
       ELSE UNCHANGED << processors, channel_roles >>
    /\ router_local' = [router_local EXCEPT ![t].returned = "None"]
    /\ UNCHANGED << processing_graph, router_lock, suppressor, engine >>

CallSetupProcessingPair(t, main_channel, ref_channel) ==
    /\ Begin(t)
    /\ pc' = [pc EXCEPT ![t] = "spp_lock"]
    /\ router_local' = [router_local EXCEPT ![t] =
           [IdleRouterLocal EXCEPT !.op = "setup_processing_pair",
                                   !.main_channel = main_channel,
                                   !.ref_channel = ref_channel]]
    /\ UNCHANGED << processors, channel_roles, processing_graph, router_lock,
                    suppressor, engine >>

\* processing_graph after setup_processing_pair(main_channel, ref_channel):
\* a new item with an empty list if main_channel has none, then the
\* reference appended to the list unless it is in it
GraphWithPair(graph, main_channel, ref_channel) ==
    Only({ [g EXCEPT ![GraphIndex(g, main_channel)].refs =
                IF \E j \in 1..Len(@) : @[j] = ref_channel
                THEN @ ELSE Append(@, ref_channel)]
           : g \in {IF GraphIndex(graph, main_channel) = 0
                    THEN Append(graph, [main |-> main_channel, refs |-> <<>>])
                    ELSE graph} })

\* setup_processing_pair's `with self._lock:` block
SetupProcessingPairLocked(t) ==
    /\ calls' = calls
    /\ pc[t] = "spp_lock"
    /\ RouterLockFree
    /\ pc' = [pc EXCEPT ![t] = "idle"]
    /\ processing_graph' = GraphWithPair(processing_graph, router_local[t].main_channel,
                                         router_local[t].ref_channel)
    /\ router_local' = [router_local EXCEPT ![t].returned = "None"]
    /\ UNCHANGED << processors, channel_roles, router_lock, suppressor, engine >>

CallProcessMultiSample(t, channel_data) ==
    /\ Begin(t)
    /\ pc' = [pc EXCEPT ![t] = "pms_lock"]
    /\ router_local' = [router_local EXCEPT ![t] =
           [IdleRouterLocal EXCEPT !.op = "process_multi_sample",
                                   !.channel_data = channel_data]]
    /\ UNCHANGED << processors, channel_roles, processing_graph, router_lock,
                    suppressor, engine >>

\* process_multi_sample takes the lock: processed_data = {} and the loop
\* over processing_graph.items() is about to start
ProcessMultiSampleLocked(t) ==
    /\ calls' = calls
    /\ pc[t] = "pms_lock"
    /\ RouterLockFree
    /\ router_lock' = t
    /\ pc' = [pc EXCEPT ![t] = "pms_route"]
    /\ router_local' = [router_local EXCEPT ![t].position = 1,
                                            ![t].graph_seen = processing_graph,
                                            ![t].processors_seen = processors]
    /\ UNCHANGED << processors, channel_roles, processing_graph, suppressor, engine >>

\* the reference channel the loop reads for the main channel's list
LastReference(ref_channels) == ref_channels[Len(ref_channels)]

RoutedReference(ref_channels) == ref_channels[1]

\* the loop's body has called process_sample of main_channel's suppressor,
\* which did r: the call came back with the processed signal, or the thread
\* is left waiting inside the suppressor with the router's lock held
RouteThroughSuppressor(t, main_channel, main_signal, reference_signal, r) ==
    /\ processors' = [processors EXCEPT ![main_channel] = << r.processor >>]
    /\ IF r.blocked
       THEN /\ pc' = [pc EXCEPT ![t] = "pms_suppressor"]
            /\ router_local' = [router_local EXCEPT
                   ![t].invoked = Append(@, << main_channel, main_signal,
                                               reference_signal >>)]
       ELSE /\ pc' = pc
            /\ router_local' = [router_local EXCEPT
                   ![t].position = @ + 1,
                   ![t].invoked = Append(@, << main_channel, main_signal,
                                               reference_signal >>),
                   ![t].processed_data = Put(@, main_channel, r.processed)]

\* one pass of the loop over processing_graph.items(), for the item e
RouteItem(t, e, channel_data) ==
    IF e.main \in DOMAIN channel_data /\ processors[e.main] # <<>>
    THEN IF Len(e.refs) > 0 /\ RoutedReference(e.refs) \in DOMAIN channel_data
         THEN \E r \in {SuppressorProcessSample(processors[e.main][1], t,
                            channel_data[e.main],
                            channel_data[RoutedReference(e.refs)])} :
                  RouteThroughSuppressor(t, e.main, channel_data[e.main],
                      channel_data[RoutedReference(e.refs)], r)
         ELSE /\ router_local' = [router_local EXCEPT
                     ![t].position = @ + 1,
                     ![t].processed_data = Put(@, e.main, channel_data[e.main])]
              /\ UNCHANGED << processors, pc >>
    ELSE /\ router_local' = [router_local EXCEPT ![t].position = @ + 1]
         /\ UNCHANGED << processors, pc >>

ProcessMultiSampleRoute(t) ==
    /\ calls' = calls
    /\ pc[t] = "pms_route"
    /\ router_local[t].position <= Len(processing_graph)
    /\ RouteItem(t, processing_graph[router_local[t].position],
                 router_local[t].channel_data)
    /\ UNCHANGED << channel_roles, processing_graph, router_lock, suppressor, engine >>

\* the second loop: every channel of channel_data that is not in
\* processed_data yet goes into it with its value
PassedThroughNone(processed_data, channel_data) == processed_data

PassedThrough(processed_data, channel_data) ==
    [c \in DOMAIN processed_data \cup DOMAIN channel_data |->
        IF c \in DOMAIN processed_data THEN processed_data[c] ELSE channel_data[c]]

\* the loop over channel_data.items(), `return processed_data`, and the
\* lock is released
ProcessMultiSamplePassThrough(t) ==
    /\ calls' = calls
    /\ pc[t] = "pms_route"
    /\ router_local[t].position > Len(processing_graph)
    /\ router_lock' = NoThread
    /\ pc' = [pc EXCEPT ![t] = "idle"]
    /\ \E result \in {PassedThrough(router_local[t].processed_data,
                                    router_local[t].channel_data)} :
           router_local' = [router_local EXCEPT ![t].processed_data = result,
                                                ![t].returned = "value",
                                                ![t].value = result]
    /\ UNCHANGED << processors, channel_roles, processing_graph, suppressor, engine >>

\* ------------------------------------------------------------------------
\* An LMSFilter used on its own
\* ------------------------------------------------------------------------

\* the range update_parameters keeps step_size in: 0.001 to 0.1
MinStepSize == 1

MaxStepSize == 100

\* the range update_parameters keeps leakage in: 0.9 to 1.0
MinLeakage == 900

MaxLeakage == 1000

\* LMSFilter.update_parameters, the body run under the filter's lock; an
\* argument is <<>> (None) or << v >>
UpdateParameters(f, step_size, leakage) ==
    [f EXCEPT !.step_size = IF step_size # <<>>
                            THEN FMax(MinStepSize, FMin(MaxStepSize, step_size[1]))
                            ELSE @,
              !.leakage = IF leakage # <<>>
                          THEN FMax(MinLeakage, FMin(MaxLeakage, leakage[1]))
                          ELSE @]

\* auto_adjust_parameters leaves at its first test
AutoAdjustNeverEarly(f) == FALSE

AutoAdjustReturnsEarly(f) == f.sample_count < MinAdjustSamples

\* what an element of np.zeros_like(main_signals) holds after the finite
\* value v is assigned to it: v itself in a float array, v truncated toward
\* zero in an integer array
StoredAs(dtype, v) ==
    IF dtype = "float64" THEN v
    ELSE IF v >= 0 THEN (v \div Scale) * Scale
    ELSE 0 - (((0 - v) \div Scale) * Scale)

\* one pass of the loop of batch_filter, for the i-th pair: s holds the
\* filter and the pairs (filtered_signals[j], noise_estimates[j]) stored so far
BatchFilterPass(s, main_signals, reference_signals, dtype, i) ==
    Only({ [ filter  |-> r.filter,
             results |-> Append(s.results, << StoredAs(dtype, r.error_signal),
                                              StoredAs(dtype, r.noise_estimate) >>) ]
           : r \in {LMSFilterSample(s.filter, main_signals[i], reference_signals[i])} })

\* the passes lo to hi of the loop of batch_filter, in index order
RECURSIVE BatchFilterRange(_, _, _, _, _, _)

BatchFilterRange(s, main_signals, reference_signals, dtype, lo, hi) ==
    IF lo > hi THEN s
    ELSE IF lo = hi
    THEN BatchFilterPass(s, main_signals, reference_signals, dtype, lo)
    ELSE Only({ Only({ BatchFilterRange(left, main_signals, reference_signals, dtype,
                                        mid + 1, hi)
                       : left \in {BatchFilterRange(s, main_signals, reference_signals,
                                                    dtype, lo, mid)} })
                : mid \in {(lo + hi) \div 2} })

\* the loop of batch_filter on the filter f: the filter after it and the
\* two result arrays, as pairs
BatchFilterLoop(f, main_signals, reference_signals, dtype) ==
    Only({ BatchFilterRange(s, main_signals, reference_signals, dtype, 1,
                            Len(main_signals))
           : s \in {[ filter |-> f, results |-> <<>> ]} })

\* a caller's call of a method of the filter that runs to its end at once
EngineCall(t) ==
    /\ Begin(t)
    /\ engine # <<>>
    /\ engine[1].lock = NoThread
    /\ UNCHANGED << suppression_mode, config, buffers, calibration, lms_filter,
                    sample_count, statistics, lock, callbacks, router >>

\* LMSFilter.filter_sample
EngineFilterSample(t, main_signal, reference_signal) ==
    /\ EngineCall(t)
    /\ pc' = pc
    /\ \E r \in {LMSFilterSample(engine[1], main_signal, reference_signal)} :
           /\ engine' = << r.filter >>
           /\ local' = [local EXCEPT ![t] =
                  [Enter(t, "filter_sample") EXCEPT
                      !.before = engine,
                      !.returned = "value",
                      !.value = [ kind |-> "filtered",
                                  results |-> << << r.error_signal,
                                                    r.noise_estimate >> >> ]]]

\* LMSFilter.update_parameters
EngineUpdateParameters(t, step_size, leakage) ==
    /\ EngineCall(t)
    /\ pc' = pc
    /\ engine' = << UpdateParameters(engine[1], step_size, leakage) >>
    /\ local' = [local EXCEPT ![t] =
           [Enter(t, "update_parameters") EXCEPT !.before = engine,
                                                 !.returned = "None"]]

\* LMSFilter.reset
EngineReset(t) ==
    /\ EngineCall(t)
    /\ pc' = pc
    /\ engine' = << LMSFilterReset(engine[1]) >>
    /\ local' = [local EXCEPT ![t] =
           [Enter(t, "engine_reset") EXCEPT !.before = engine, !.returned = "None"]]

\* LMSFilter.auto_adjust_parameters: it returns at its first test, or it
\* calls get_performance_metrics, whose `with self._lock` waits for the lock
\* auto_adjust_parameters itself holds
EngineAutoAdjust(t) ==
    /\ EngineCall(t)
    /\ IF AutoAdjustReturnsEarly(engine[1])
       THEN /\ pc' = pc
            /\ engine' = engine
            /\ local' = [local EXCEPT ![t] =
                   [Enter(t, "auto_adjust_parameters") EXCEPT !.before = engine,
                                                              !.returned = "None"]]
       ELSE /\ pc' = [pc EXCEPT ![t] = "aap_metrics_lock"]
            /\ engine' = << [engine[1] EXCEPT !.lock = t] >>
            /\ local' = [local EXCEPT ![t] =
                   [Enter(t, "auto_adjust_parameters") EXCEPT !.before = engine]]

\* LMSFilter.batch_filter on two sequences of the given dtype
EngineBatchFilter(t, main_signals, reference_signals, dtype) ==
    /\ EngineCall(t)
    /\ pc' = pc
    /\ IF Len(main_signals) # Len(reference_signals)
       THEN /\ engine' = engine
            /\ local' = [local EXCEPT ![t] =
                   [Enter(t, "batch_filter") EXCEPT
                       !.before = engine,
                       !.main_samples = main_signals,
                       !.reference_samples = reference_signals,
                       !.raised = "ValueError"]]
       ELSE \E b \in {BatchFilterLoop(engine[1], main_signals, reference_signals,
                                      dtype)} :
                /\ engine' = << b.filter >>
                /\ local' = [local EXCEPT ![t] =
                       [Enter(t, "batch_filter") EXCEPT
                           !.before = engine,
                           !.main_samples = main_signals,
                           !.reference_samples = reference_signals,
                           !.returned = "value",
                           !.value = [ kind |-> "filtered", results |-> b.results ]]]

\* ------------------------------------------------------------------------
\* Callers and specifications
\* ------------------------------------------------------------------------

\* the samples a producer supplies in the short runs: (main, reference)
Signals == { << 4 * Scale, 2 * Scale >>, << 3 * Scale, 0 >> }

\* [1.0, 2.0, ..., n] scaled by k
Ramp(n, k) == [i \in 1..n |-> i * k * Scale]

\* [1.0] * n
Ones(n) == [i \in 1..n |-> Scale]

\* the arguments callers pass to calibrate: 20 rising mains against a
\* constant reference, mains twice a rising reference, a length mismatch,
\* and 9 samples
CalibrationInputs ==
    { << Ramp(20, 1), Ones(20) >>,
      << Ramp(10, 2), Ramp(10, 1) >>,
      << Ramp(10, 1), Ramp(9, 1) >>,
      << Ramp(9, 1), Ramp(9, 1) >> }

\* one step of thread t: it starts a public operation or goes on inside the
\* one it has started
Step(t) ==
    \/ \E s \in Callbacks, d \in Callbacks : CallSetCallbacks(t, s, d)
    \/ SetCallbacksData(t)
    \/ \E m \in Modes : CallUpdateMode(t, m)
    \/ UpdateModeLocked(t)
    \/ UpdateModeNotify(t)
    \/ \E c \in CalibrationInputs : CallCalibrate(t, c[1], c[2])
    \/ CalibrateLocked(t)
    \/ CalibrateNotify(t)
    \/ \E x \in Signals : CallProcessSample(t, x[1], x[2])
    \/ ProcessSampleLocked(t)
    \/ ProcessByMode(t)
    \/ ProcessSampleNotify(t)
    \/ CallReset(t)
    \/ ResetLocked(t)
    \/ ResetNotify(t)
    \/ CallExportData(t)
    \/ ExportDataLocked(t)
    \/ MutateExported(t, 7 * Scale)
    \/ CallGetPerformanceSummary(t)
    \/ PerformanceSummaryLocked(t)

\* Short runs of one caller thread: every configuration with a small
\* buffer, every public operation, at most MaxCalls calls
Init ==
    /\ \E mode \in Modes, size \in 1..MaxBufferSize, auto \in BOOLEAN :
           Construct(mode, size, auto)
    /\ RouterConstruct
    /\ engine = <<>>
    /\ calls = MaxCalls

Next == Step(MainThread)

Spec == Init /\ [][Next]_vars

\* Two caller threads on one instance, MaxConcurrentCalls calls between them
ConcurrentInit ==
    /\ \E mode \in Modes, size \in 1..MaxBufferSize, auto \in BOOLEAN :
           Construct(mode, size, auto)
    /\ RouterConstruct
    /\ engine = <<>>
    /\ calls = MaxConcurrentCalls

ConcurrentNext == \E t \in Threads : Step(t)

ConcurrentSpec == ConcurrentInit /\ [][ConcurrentNext]_vars

\* the caller registers callbacks that call get_performance_summary of the
\* instance, or none
ReentrantSetCallbacks(t) ==
    \E s \in {NoCallback, ReentrantCallback}, d \in {NoCallback, ReentrantCallback} :
        CallSetCallbacks(t, s, d)

\* Short runs of one caller thread whose callbacks call back into the
\* instance: as Spec, with these callbacks registered too
ReentrantNext == Step(MainThread) \/ ReentrantSetCallbacks(MainThread)

ReentrantSpec == Init /\ [][ReentrantNext]_vars

\* the n-th sample of the long stream: mains 1.0, 1.5, 2.0 and references
\* 0.5, 1.0 in turn
StreamSample(n) ==
    << (2 + (n % 3)) * (Scale \div 2), (1 + (n % 2)) * (Scale \div 2) >>

\* the stream's producer calls process_sample with the next sample
StreamProcessSample(t) ==
    CallProcessSample(t, StreamSample(sample_count)[1], StreamSample(sample_count)[2])

\* the producer may calibrate once, before the first sample
StreamCalibrate(t) ==
    /\ calls = LongSamples
    /\ CallCalibrate(t, Ramp(MinCalibrationSamples, 2), Ramp(MinCalibrationSamples, 1))

\* A long stream from one producer thread: buffers of calibration_samples - 1
\* and calibration_samples entries, no callbacks, LongSamples calls, the
\* thread always scheduled again
StreamInit ==
    /\ \E mode \in Modes, size \in {calibration_samples - 1, calibration_samples},
          auto \in BOOLEAN :
           Construct(mode, size, auto)
    /\ RouterConstruct
    /\ engine = <<>>
    /\ calls = LongSamples

StreamNext ==
    \/ StreamCalibrate(MainThread)
    \/ CalibrateLocked(MainThread)
    \/ StreamProcessSample(MainThread)
    \/ ProcessSampleLocked(MainThread)
    \/ ProcessByMode(MainThread)

StreamSpec == StreamInit /\ [][StreamNext]_vars /\ WF_vars(StreamNext)

\* the producer registers a status and a data callback with its first call
StreamSetCallbacks(t) ==
    /\ calls = LongSamples
    /\ CallSetCallbacks(t, "callable", "callable")

\* and calls process_sample with the next sample from then on
NotifiedStreamProcessSample(t) ==
    /\ calls < LongSamples
    /\ StreamProcessSample(t)

\* A long stream from one producer thread that has registered callbacks:
\* a buffer of calibration_samples entries, LongSamples calls, the thread
\* always scheduled again
NotifiedStreamInit ==
    /\ \E mode \in Modes, auto \in BOOLEAN : Construct(mode, calibration_samples, auto)
    /\ RouterConstruct
    /\ engine = <<>>
    /\ calls = LongSamples

NotifiedStreamNext ==
    \/ StreamSetCallbacks(MainThread)
    \/ SetCallbacksData(MainThread)
    \/ NotifiedStreamProcessSample(MainThread)
    \/ ProcessSampleLocked(MainThread)
    \/ ProcessByMode(MainThread)
    \/ ProcessSampleNotify(MainThread)

NotifiedStreamSpec ==
    NotifiedStreamInit /\ [][NotifiedStreamNext]_vars /\ WF_vars(NotifiedStreamNext)

\* the calls of the producer that streams, resets and streams again
ResetStreamCalls == 53

\* the producer resets once the filter's first adaptation interval is over,
\* or one sample before that
StreamReset(t) ==
    /\ sample_count \in {ConstructorAdaptationInterval - 1, ConstructorAdaptationInterval}
    /\ CallReset(t)

\* A stream from one producer thread to an instance constructed with a
\* filter, reset after the first adaptation interval: no callbacks, no
\* auto-calibration, ResetStreamCalls calls
ResetStreamInit ==
    /\ \E mode \in EngineModes : Construct(mode, calibration_samples, FALSE)
    /\ RouterConstruct
    /\ engine = <<>>
    /\ calls = ResetStreamCalls

ResetStreamNext ==
    \/ StreamProcessSample(MainThread)
    \/ ProcessSampleLocked(MainThread)
    \/ ProcessByMode(MainThread)
    \/ StreamReset(MainThread)
    \/ ResetLocked(MainThread)

ResetStreamSpec == ResetStreamInit /\ [][ResetStreamNext]_vars

\* the dictionary get_performance_summary returns for the suppressor p
SuppressorSummary(p) ==
    [ kind                   |-> "summary",
      mode                   |-> p.suppression_mode,
      sample_count           |-> p.sample_count,
      calibration_ratio      |-> p.calibration_ratio,
      difference_coefficient |-> p.difference_coefficient,
      buffer_utilization     |-> FDiv(Len(p.main_buffer) * Scale, p.buffer_size * Scale),
      statistics             |-> p.statistics,
      lms_metrics            |-> IF p.lms_filter = <<>> THEN <<>>
                                 ELSE << GetPerformanceMetrics(p.lms_filter[1].base) >> ]

CallGetAllPerformanceSummaries(t) ==
    /\ Begin(t)
    /\ pc' = [pc EXCEPT ![t] = "gaps_lock"]
    /\ router_local' = [router_local EXCEPT ![t] =
           [IdleRouterLocal EXCEPT !.op = "get_all_performance_summaries"]]
    /\ UNCHANGED << processors, channel_roles, processing_graph, router_lock,
                    suppressor, engine >>

\* get_all_performance_summaries' `with self._lock:` block: the summary of
\* every registered suppressor, each taken under that suppressor's lock
GetAllPerformanceSummariesLocked(t) ==
    /\ calls' = calls
    /\ pc[t] = "gaps_lock"
    /\ RouterLockFree
    /\ pc' = [pc EXCEPT ![t] = "idle"]
    /\ router_local' = [router_local EXCEPT
           ![t].returned = "value",
           ![t].value = [c \in {c \in Channels : processors[c] # <<>>} |->
                            SuppressorSummary(processors[c][1])]]
    /\ UNCHANGED << processors, channel_roles, processing_graph, router_lock,
                    suppressor, engine >>

\* the readings callers pass to process_multi_sample: all three channels,
\* B missing, A missing
Readings ==
    { [c \in {"A", "B", "C"} |-> CASE c = "A" -> 5 * Scale [] c = "B" -> 2 * Scale
                                   [] c = "C" -> 9 * Scale],
      [c \in {"A", "C"} |-> IF c = "A" THEN 5 * Scale ELSE 9 * Scale],
      [c \in {"B", "C"} |-> IF c = "B" THEN 4 * Scale ELSE 8 * Scale] }

\* one step of thread t on the MultiChannelProcessor: callers register the
\* channels A and B, in two of the modes, and pair A with B, A with C and B
\* with C
RouterStep(t) ==
    \/ \E c \in {"A", "B"}, m \in {"ratio", "difference"} :
           CallAddChannel(t, c, "main", m)
    \/ AddChannelLocked(t)
    \/ \E p \in { << "A", "B" >>, << "A", "C" >>, << "B", "C" >> } :
           CallSetupProcessingPair(t, p[1], p[2])
    \/ SetupProcessingPairLocked(t)
    \/ \E d \in Readings : CallProcessMultiSample(t, d)
    \/ ProcessMultiSampleLocked(t)
    \/ ProcessMultiSampleRoute(t)
    \/ ProcessMultiSamplePassThrough(t)
    \/ CallGetAllPerformanceSummaries(t)
    \/ GetAllPerformanceSummariesLocked(t)

\* A MultiChannelProcessor used by one thread, at most MaxRouterCalls calls;
\* the DualPathProcessor of the other specifications is a default one that
\* nobody calls
RouterInit ==
    /\ Construct("ratio", DefaultBufferSize, TRUE)
    /\ RouterConstruct
    /\ engine = <<>>
    /\ calls = MaxRouterCalls

RouterNext == RouterStep(MainThread)

RouterSpec == RouterInit /\ [][RouterNext]_vars

\* The MultiChannelProcessor used by two threads
ConcurrentRouterInit ==
    /\ Construct("ratio", DefaultBufferSize, TRUE)
    /\ RouterConstruct
    /\ engine = <<>>
    /\ calls = MaxConcurrentRouterCalls

ConcurrentRouterNext == \E t \in Threads : RouterStep(t)

ConcurrentRouterSpec == ConcurrentRouterInit /\ [][ConcurrentRouterNext]_vars

\* the readings of the n-th round of a long run: channels A and B
StreamReading(n) ==
    [c \in {"A", "B"} |-> IF c = "A" THEN StreamSample(n)[1] ELSE StreamSample(n)[2]]

\* the long run registers channel A, in any mode, with its first call
RouterStreamAddChannel(t) ==
    /\ calls = LongSamples
    /\ \E m \in Modes : CallAddChannel(t, "A", "main", m)

\* pairs A with the reference B with its second call
RouterStreamSetup(t) ==
    /\ calls = LongSamples - 1
    /\ CallSetupProcessingPair(t, "A", "B")

\* and from then on calls process_multi_sample with the next readings
RouterStreamRound(t) ==
    /\ calls < LongSamples - 1
    /\ CallProcessMultiSample(t, StreamReading(processors["A"][1].sample_count))

\* A long run of rounds from one thread through a MultiChannelProcessor with
\* the graph {A: [B]}, the thread always scheduled again
RouterStreamInit ==
    /\ Construct("ratio", DefaultBufferSize, TRUE)
    /\ RouterConstruct
    /\ engine = <<>>
    /\ calls = LongSamples

RouterStreamNext ==
    \/ RouterStreamAddChannel(MainThread)
    \/ AddChannelLocked(MainThread)
    \/ RouterStreamSetup(MainThread)
    \/ SetupProcessingPairLocked(MainThread)
    \/ RouterStreamRound(MainThread)
    \/ ProcessMultiSampleLocked(MainThread)
    \/ ProcessMultiSampleRoute(MainThread)
    \/ ProcessMultiSamplePassThrough(MainThread)

RouterStreamSpec ==
    RouterStreamInit /\ [][RouterStreamNext]_vars /\ WF_vars(RouterStreamNext)

\* the arguments callers construct an LMSFilter with: the defaults, and a
\* step size of 0.5 and a leakage of 0.5
EngineArguments ==
    { << n, mu, lambda >> : n \in {2}, mu \in {DefaultStepSize, Scale \div 2},
                            lambda \in {DefaultLeakage, Scale \div 2} }

\* the arguments callers pass to update_parameters
ParameterUpdates ==
    { << << Scale \div 2 >>, <<>> >>, << <<>>, << Scale \div 2 >> >>,
      << << 0 >>, << 2 * Scale >> >>, << << 50 >>, << 950 >> >> }

\* a main signal of 4.0 for HistoryDecimation samples and of 0 from then on
Burst(n) == [i \in 1..n |-> IF i <= HistoryDecimation THEN 4 * Scale ELSE 0]

\* the sequences callers pass to batch_filter, with their dtype: [1, 2] and
\* [1, 1] as floats and as integers, a length mismatch, MinAdjustSamples
\* ones, and a burst of MinAdjustSamples samples with a reference of 0
Batches ==
    { << Ramp(2, 1), Ones(2), "float64" >>,
      << Ramp(2, 1), Ones(2), "int64" >>,
      << Ramp(2, 1), Ones(1), "float64" >>,
      << Ones(MinAdjustSamples), Ones(MinAdjustSamples), "float64" >>,
      << Burst(MinAdjustSamples), Zeros(MinAdjustSamples), "float64" >> }

\* one call of thread t on the filter
EngineStep(t) ==
    \/ \E x \in Signals : EngineFilterSample(t, x[1], x[2])
    \/ \E u \in ParameterUpdates : EngineUpdateParameters(t, u[1], u[2])
    \/ EngineReset(t)
    \/ EngineAutoAdjust(t)
    \/ \E b \in Batches : EngineBatchFilter(t, b[1], b[2], b[3])

\* An LMSFilter constructed by its caller and used by one thread, at most
\* MaxEngineCalls calls
EngineInit ==
    /\ Construct("ratio", DefaultBufferSize, TRUE)
    /\ RouterConstruct
    /\ \E a \in EngineArguments : engine = << LMSFilterNew(a[1], a[2], a[3]) >>
    /\ calls = MaxEngineCalls

EngineNext == EngineStep(MainThread)

EngineSpec == EngineInit /\ [][EngineNext]_vars

\* ------------------------------------------------------------------------
\* Properties
\* ------------------------------------------------------------------------

\* thread t is back at its caller from a call of op
Ended(t, op) == pc[t] = "idle" /\ local[t].op = op

\* C1: every process_sample call returns: a thread that has entered
\* process_sample is eventually back at its caller, the 100th call with
\* auto-calibration included
ProcessSampleReturns ==
    \A t \in Threads : (pc[t] = "ps_lock") ~> (pc[t] = "idle")

\* C2: every call to the adaptive engine completes: a thread that is inside
\* auto_adjust_parameters, at get_performance_metrics, gets out of the filter
\* and back to the caller
AdaptiveEngineCallReturns ==
    \A t \in Threads : (pc[t] = "aap_metrics_lock") ~> (pc[t] = "idle")

\* C3: calibration is all-or-nothing: when calibrate has reported failure,
\* calibration_ratio and difference_coefficient are what they were before
\* the call
CalibrationAllOrNothing ==
    \A t \in Threads :
        (Ended(t, "calibrate") /\ local[t].returned = "False")
            => << calibration_ratio, difference_coefficient >>
                   = << local[t].before[1], local[t].before[2] >>

\* C4: an exception raised by a status or data callback reaches the caller
\* of the operation that invoked the callback, whatever the operation
CallbackExceptionPropagates ==
    \A t \in Threads :
        (pc[t] = "idle" /\ local[t].callback_raised # "none")
            => /\ local[t].raised = local[t].callback_raised
               /\ local[t].returned = "none"

\* C5: concurrent calls serialize: when each of the two threads has made one
\* set_callbacks call and both are back, the registered pair is the pair
\* one of them passed (the later one of some serial order)
SetCallbacksSerializable ==
    (\A t \in Threads : Ended(t, "set_callbacks") /\ local[t].returned = "None")
        => << status_callback, data_callback >>
               \in {<< local[t].new_status, local[t].new_data >> : t \in Threads}

\* C6: once reset has returned, the instance equals a freshly constructed
\* one of the same mode: empty buffers, count 0, calibration (1.0, 1.0),
\* zero statistics, and the filter __init__ would build
ResetEqualsFresh ==
    \A t \in Threads :
        (Ended(t, "reset") /\ local[t].returned = "None")
            => /\ buffers = << <<>>, <<>>, <<>>, <<>> >>
               /\ sample_count = 0
               /\ calibration = << Scale, Scale >>
               /\ statistics = ZeroStatistics
               /\ lms_filter = ConstructedFilter(suppression_mode)

\* a step that switches the mode with a filter before and after it
EngineKept ==
    (lms_filter # <<>> /\ lms_filter' # <<>>
     /\ suppression_mode' # suppression_mode)
        => lms_filter' = lms_filter

\* a step that gives the instance a filter gives it one new default filter
EngineAllocated ==
    (lms_filter = <<>> /\ lms_filter' # <<>>)
        => /\ suppression_mode' \in EngineModes
           /\ lms_filter' = << AdaptiveLMSFilterNew(DefaultFilterLength,
                                   DefaultStepSize, DefaultAdaptationInterval) >>

\* a step that takes the filter away is a switch to a mode without engine
EngineFreed ==
    (lms_filter # <<>> /\ lms_filter' = <<>>) => suppression_mode' \notin EngineModes

\* C7: mode-switch invariant: there is a filter exactly in the two engine
\* modes; a switch into an engine mode allocates one default filter when
\* there was none, a switch out of them frees it, and a switch between the
\* two engine modes keeps the same filter with its accumulated state
ModeSwitchInvariant ==
    /\ [](lms_filter # <<>> <=> suppression_mode \in EngineModes)
    /\ [][EngineKept /\ EngineAllocated /\ EngineFreed]_vars

\* C7: update_mode has returned from a switch between the two engine modes
\* and the filter still holds the samples it had processed
ModeSwitchKeepsEngineReached ==
    \E t \in Threads :
        /\ Ended(t, "update_mode") /\ local[t].returned = "None"
        /\ suppression_mode = "hybrid"
        /\ lms_filter # <<>>
        /\ lms_filter[1].base.sample_count > 0
        /\ lms_filter[1].adaptation_interval = ConstructorAdaptationInterval

\* min(a, b)
Least(a, b) == IF a < b THEN a ELSE b

\* C8: buffer bound: between calls each of the four buffers holds
\* min(samples fed, buffer_size) entries, so exactly buffer_size once
\* buffer_size + K samples were fed, and never more
BufferBound ==
    (\A t \in Threads : pc[t] = "idle")
        => /\ Len(main_buffer) = Least(sample_count, buffer_size)
           /\ Len(reference_buffer) = Least(sample_count, buffer_size)
           /\ Len(output_buffer) = Least(sample_count, buffer_size)
           /\ Len(noise_buffer) = Least(sample_count, buffer_size)

\* C8: more samples than buffer_size were fed and the buffers are full
BufferEvictionReached ==
    /\ \A t \in Threads : pc[t] = "idle"
    /\ sample_count > buffer_size
    /\ Len(main_buffer) = buffer_size
    /\ Len(noise_buffer) = buffer_size
    /\ main_buffer[buffer_size] # main_buffer[1]

\* the lengths differ or there are fewer than 10 samples
InvalidCalibrationInput(main_samples, reference_samples) ==
    \/ Len(main_samples) # Len(reference_samples)
    \/ Len(main_samples) < 10

\* C9: calibrate with sequences of different lengths or fewer than 10
\* elements returns False, leaves calibration_ratio, difference_coefficient
\* and the correlation statistic as they were, and invokes no callback
InvalidCalibrationRejected ==
    \A t \in Threads :
        (/\ local[t].op = "calibrate"
         /\ InvalidCalibrationInput(local[t].main_samples, local[t].reference_samples))
            => /\ pc[t] = "idle"
               /\ local[t].returned = "False"
               /\ local[t].raised = "none"
               /\ local[t].notified = 0
               /\ << calibration_ratio, difference_coefficient,
                     statistics.correlation_coefficient >> = local[t].before

\* C9: calibrate was called with 9 samples while a status callback is
\* registered and the calibration is no longer the initial one
InvalidCalibrationReached ==
    \E t \in Threads :
        /\ Ended(t, "calibrate")
        /\ Len(local[t].main_samples) = Len(local[t].reference_samples)
        /\ Len(local[t].main_samples) < 10
        /\ status_callback # NoCallback
        /\ calibration_ratio # Scale

\* C10: the calibration process_sample triggers on the 100th sample runs to
\* its end, and the sample's mode output is computed after it
AutoCalibrationCompletes ==
    \A t \in Threads :
        (pc[t] = "cal_lock" /\ local[t].nested) ~> (pc[t] = "ps_mode")

\* thread t is back at its caller from a MultiChannelProcessor call of op
RouterEnded(t, op) == pc[t] = "idle" /\ router_local[t].op = op

\* the process_sample calls the last process_multi_sample of l made on the
\* suppressor of main_channel
InvocationsOf(l, main_channel) ==
    {j \in 1..Len(l.invoked) : l.invoked[j][1] = main_channel}

\* the item e of the graph has a registered suppressor, and its main channel
\* and its first listed reference are both in the readings of l
Routable(l, e) ==
    /\ l.processors_seen[e.main] # <<>>
    /\ e.main \in DOMAIN l.channel_data
    /\ Len(e.refs) > 0
    /\ e.refs[1] \in DOMAIN l.channel_data

\* the call l made exactly one process_sample call for the item e, with the
\* raw readings of the main channel and of the first listed reference, and
\* returns for the main channel what that call returned
RoutedOnce(l, t, e) ==
    /\ Cardinality(InvocationsOf(l, e.main)) = 1
    /\ \A j \in InvocationsOf(l, e.main) :
           l.invoked[j] = << e.main, l.channel_data[e.main], l.channel_data[e.refs[1]] >>
    /\ e.main \in DOMAIN l.value
    /\ l.value[e.main] = SuppressorProcessSample(l.processors_seen[e.main][1], t,
                             l.channel_data[e.main], l.channel_data[e.refs[1]]).processed

\* every routable item of the graph the call of thread t worked on was
\* routed once, against the raw readings
RoutedAsGraph(t) ==
    \A i \in 1..Len(router_local[t].graph_seen) :
        Routable(router_local[t], router_local[t].graph_seen[i])
            => RoutedOnce(router_local[t], t, router_local[t].graph_seen[i])

\* C11: router routing: a process_multi_sample call comes back, having
\* called, for every graph entry whose main channel has a suppressor and
\* whose main and first reference are in the readings, that suppressor's
\* process_sample exactly once with (readings[main], readings[first ref]),
\* the raw readings, and returning its output for main
RouterRoutes ==
    \A t \in Threads :
        (pc[t] = "pms_lock")
            ~> (RouterEnded(t, "process_multi_sample") /\ RoutedAsGraph(t))

\* while no suppressor of the router has seen calibration_samples samples,
\* a process_multi_sample call that is back has routed as C11 says
RoutedWhenReturned ==
    \A t \in Threads :
        (RouterEnded(t, "process_multi_sample") /\ router_local[t].returned = "value")
            => RoutedAsGraph(t)

\* the main channels of the graph the call l worked on
MainsOf(l) == {l.graph_seen[i].main : i \in 1..Len(l.graph_seen)}

\* C12: router pass-through: every channel id of the readings that is not a
\* main channel of the routing graph is in the result of process_multi_sample
\* with its input value, and no suppressor was invoked for it
RouterPassThrough ==
    \A t \in Threads :
        (RouterEnded(t, "process_multi_sample") /\ router_local[t].returned = "value")
            => \A c \in DOMAIN router_local[t].channel_data \ MainsOf(router_local[t]) :
                   /\ c \in DOMAIN router_local[t].value
                   /\ router_local[t].value[c] = router_local[t].channel_data[c]
                   /\ InvocationsOf(router_local[t], c) = {}

\* C12: the graph is {A: [B]}, A has a suppressor, and the call with readings
\* for A, B and C is back with B: 2 and C: 9 and the suppressor's output for A
PassThroughReached ==
    \E t \in Threads :
        /\ RouterEnded(t, "process_multi_sample") /\ router_local[t].returned = "value"
        /\ router_local[t].graph_seen = << [main |-> "A", refs |-> << "B" >>] >>
        /\ router_local[t].processors_seen["A"] # <<>>
        /\ DOMAIN router_local[t].channel_data = {"A", "B", "C"}
        /\ router_local[t].value["B"] = 2 * Scale
        /\ router_local[t].value["C"] = 9 * Scale
        /\ InvocationsOf(router_local[t], "A") # {}

\* the item e of the graph has a registered suppressor and its main channel
\* is in the readings of l, but its first listed reference is not
FirstReferenceAbsent(l, e) ==
    /\ l.processors_seen[e.main] # <<>>
    /\ e.main \in DOMAIN l.channel_data
    /\ Len(e.refs) > 0
    /\ e.refs[1] \notin DOMAIN l.channel_data

\* C13: when a main channel of the graph has a suppressor and a reading but
\* its first listed reference has no reading, process_multi_sample returns
\* the main reading unchanged and does not call the suppressor, whose
\* buffers, sample count, calibration and statistics are as before the call
FirstReferenceAbsentPassesThrough ==
    \A t \in Threads :
        (RouterEnded(t, "process_multi_sample") /\ router_local[t].returned = "value")
            => \A i \in 1..Len(router_local[t].graph_seen) :
                   FirstReferenceAbsent(router_local[t], router_local[t].graph_seen[i])
                       => /\ router_local[t].value[router_local[t].graph_seen[i].main]
                               = router_local[t].channel_data[router_local[t].graph_seen[i].main]
                          /\ InvocationsOf(router_local[t],
                                           router_local[t].graph_seen[i].main) = {}
                          /\ processors[router_local[t].graph_seen[i].main]
                               = router_local[t].processors_seen[router_local[t].graph_seen[i].main]

\* C13: a call is back whose main channel A has the references [B, C], a
\* suppressor that has processed samples, and readings for A and C only
FirstReferenceAbsentReached ==
    \E t \in Threads :
        /\ RouterEnded(t, "process_multi_sample") /\ router_local[t].returned = "value"
        /\ \E i \in 1..Len(router_local[t].graph_seen) :
               router_local[t].graph_seen[i] = [main |-> "A", refs |-> << "B", "C" >>]
        /\ router_local[t].processors_seen["A"] # <<>>
        /\ router_local[t].processors_seen["A"][1].sample_count > 0
        /\ DOMAIN router_local[t].channel_data = {"A", "C"}

\* the channels that have a suppressor in the registry p
Registered(p) == {c \in Channels : p[c] # <<>>}

\* C14: process_multi_sample is one exclusive section: while a thread is
\* inside it, it holds the router's lock, and the graph and the registry of
\* suppressors are the ones the call found when it started, whatever
\* add_channel and setup_processing_pair calls other threads are making
RouterExclusive ==
    \A t \in Threads :
        (pc[t] \in {"pms_route", "pms_suppressor"})
            => /\ router_lock = t
               /\ processing_graph = router_local[t].graph_seen
               /\ Registered(processors) = Registered(router_local[t].processors_seen)
               /\ \A u \in Threads \ {t} : pc[u] \notin {"pms_route", "pms_suppressor"}

\* C14: a thread is inside process_multi_sample, past the first item of the
\* graph, while another thread has called add_channel or
\* setup_processing_pair and waits for the lock
RouterContendedReached ==
    \E t \in Threads, u \in Threads :
        /\ t # u
        /\ pc[t] = "pms_route"
        /\ router_local[t].position > 1
        /\ pc[u] \in {"ac_lock", "spp_lock"}

\* C15: parameter range invariant: in every state of an LMSFilter, from its
\* construction on, the step size is within [0.001, 0.1] and the leakage
\* within [0.9, 1.0]
ParameterRange ==
    engine # <<>>
        => /\ engine[1].step_size >= 1 /\ engine[1].step_size <= 100
           /\ engine[1].leakage >= 900 /\ engine[1].leakage <= 1000

\* C16: batch_filter with sequences of different lengths raises to the
\* caller and leaves the filter as it was; with equal lengths its results
\* and the filter after it are those of filter_sample called on each pair
\* in index order
BatchFilterAsSequential ==
    \A t \in Threads :
        Ended(t, "batch_filter")
            => IF Len(local[t].main_samples) # Len(local[t].reference_samples)
               THEN /\ local[t].raised = "ValueError"
                    /\ local[t].returned = "none"
                    /\ engine = local[t].before
               ELSE /\ local[t].returned = "value"
                    /\ [ filter |-> engine[1], results |-> local[t].value.results ]
                         = BatchFilterLoop(local[t].before[1], local[t].main_samples,
                                           local[t].reference_samples, "float64")

\* C20: auto_adjust_parameters is a silent no-op below 100 samples: called
\* on a filter whose sample counter is less than 100, it is back at once
\* without an error and the filter (step size, leakage, weights, ring
\* buffer, counters, history) is as it was
AutoAdjustNoOpBelowThreshold ==
    \A t \in Threads :
        (local[t].op = "auto_adjust_parameters" /\ local[t].before[1].sample_count < 100)
            => /\ pc[t] = "idle"
               /\ local[t].returned = "None"
               /\ local[t].raised = "none"
               /\ engine = local[t].before

\* C20: auto_adjust_parameters has returned from a call on a filter that
\* had processed some samples, fewer than 100
AutoAdjustBelowThresholdReached ==
    \E t \in Threads :
        /\ Ended(t, "auto_adjust_parameters")
        /\ local[t].returned = "None"
        /\ local[t].before[1].sample_count > 0
        /\ local[t].before[1].sample_count < 100
        /\ local[t].before[1].weights # Zeros(local[t].before[1].filter_length)

\* the number of invocations a call makes of the callback cb: one if set
OnceIfSet(cb) == IF cb # NoCallback THEN 1 ELSE 0

\* an operation that is over has invoked its callback once if one is set:
\* update_mode, reset and a calibration that succeeded the status callback,
\* process_sample the data callback, after the output was recorded and with
\* the pair it returns
NotifiedOnReturn ==
    \A t \in Threads :
        pc[t] = "idle"
            => /\ (local[t].op \in {"update_mode", "reset"}
                   /\ (local[t].returned = "None" \/ local[t].raised # "none"))
                      => local[t].notified = OnceIfSet(status_callback)
               /\ (local[t].op = "calibrate" /\ local[t].returned = "True")
                      => local[t].notified = OnceIfSet(status_callback)
               /\ (local[t].op = "process_sample"
                   /\ (local[t].returned = "value" \/ local[t].raised # "none"))
                      => /\ local[t].notified = OnceIfSet(data_callback)
                         /\ data_callback # NoCallback
                                => /\ local[t].callback_args
                                        = << local[t].processed, local[t].info >>
                                   /\ output_buffer[Len(output_buffer)]
                                        = local[t].callback_args[1]
                         /\ (data_callback # NoCallback /\ local[t].returned = "value")
                                => local[t].callback_args
                                     = << local[t].value.processed, local[t].value.info >>

\* C17: status and data notifications: the status callback, when set, is
\* invoked exactly once by each update_mode, each successful calibration
\* (explicit or auto-triggered) and each reset before the operation returns;
\* the data callback, when set, is invoked exactly once per process_sample,
\* after the output was recorded, with the pair process_sample returns
Notifications ==
    /\ []NotifiedOnReturn
    /\ \A t \in Threads :
           (pc[t] = "ps_lock" /\ data_callback # NoCallback)
               ~> (Ended(t, "process_sample") /\ local[t].notified = 1)

\* a step of thread t inside reset
ResetStep(t) == pc[t] \in {"rs_lock", "rs_notify"} /\ pc'[t] # pc[t]

\* C18: reset preserves configuration: the steps of reset leave the mode,
\* buffer_size, the auto-calibration flag, the registered callbacks and the
\* presence or absence of the filter as they were before the call (the
\* smoothing factor is set by __init__ alone)
ResetPreservesConfiguration ==
    [][ \A t \in Threads :
            ResetStep(t)
                => /\ UNCHANGED << suppression_mode, buffer_size,
                                   enable_auto_calibration, status_callback,
                                   data_callback >>
                   /\ (lms_filter' = <<>>) <=> (lms_filter = <<>>) ]_vars

\* C18: reset is back on an instance that has a filter which had processed
\* samples, callbacks registered, and a mode other than the default
ResetWithConfigurationReached ==
    \E t \in Threads :
        /\ Ended(t, "reset") /\ local[t].returned = "None"
        /\ suppression_mode = "hybrid"
        /\ lms_filter # <<>>
        /\ lms_filter[1].performance_window # <<>>
        /\ status_callback # NoCallback

\* the step in which export_data runs, and the step in which its caller
\* changes the value it got back
ExportStep(t) == pc[t] = "ex_lock" /\ pc'[t] = "idle"

ExportMutation(t) == ~local[t].mutated /\ local'[t].mutated

\* C19: export_data is a pure read, and what it returns are copies: neither
\* the call nor a later change of the returned lists and statistics changes
\* the buffers, the sample count, the calibration, the statistics or the
\* filter, which is all that later calls observe
ExportIsPureRead ==
    [][ \A t \in Threads :
            (ExportStep(t) \/ ExportMutation(t))
                => UNCHANGED << buffers, sample_count, calibration, statistics,
                                lms_filter, suppression_mode, config >> ]_vars

\* C19: the caller has changed the lists export_data returned from an
\* instance that holds samples, and they differ from the instance's buffers
ExportMutatedReached ==
    \E t \in Threads :
        /\ local[t].mutated
        /\ Len(main_buffer) > 0
        /\ local[t].value.main_signals # main_buffer
        /\ local[t].value.statistics # statistics

AdaptationPhase ==
    ((\A t \in Threads : pc[t] = "idle") /\ lms_filter # <<>>)
        => /\ lms_filter[1].base.sample_count - lms_filter[1].last_adaptation_sample >= 0
           /\ lms_filter[1].base.sample_count - lms_filter[1].last_adaptation_sample
                < lms_filter[1].adaptation_interval

\* C23: bounded-queue order: the step of process_sample that records the
\* inputs leaves in the main and in the reference buffer the last
\* min(n, buffer_size) inputs in arrival order, the same number in both,
\* the oldest pair evicted; reset empties both, and no other step changes
\* them
BoundedQueueOrder ==
    [][ /\ (\A u \in Threads : pc[u] \in {"ps_lock", "rs_lock"} => pc'[u] = pc[u])
               => UNCHANGED << main_buffer, reference_buffer >>
        /\ \A t \in Threads :
            /\ (pc[t] = "ps_lock" /\ pc'[t] # "ps_lock")
                   => /\ main_buffer'
                           = LastN(Append(main_buffer, local[t].main_signal),
                                   Least(Len(main_buffer) + 1, buffer_size))
                      /\ reference_buffer'
                           = LastN(Append(reference_buffer, local[t].reference_signal),
                                   Least(Len(reference_buffer) + 1, buffer_size))
                      /\ Len(main_buffer') = Len(reference_buffer')
            /\ (pc[t] = "rs_lock" /\ pc'[t] # "rs_lock")
                   => main_buffer' = <<>> /\ reference_buffer' = <<>> ]_vars

\* C23: process_sample has returned with the buffers full and the oldest
\* pair evicted, the pairs that are left being different and in arrival
\* order
BoundedQueueEvictionReached ==
    \E t \in Threads :
        /\ Ended(t, "process_sample")
        /\ buffer_size >= 2
        /\ sample_count > buffer_size
        /\ Len(main_buffer) = buffer_size
        /\ main_buffer[1] # main_buffer[Len(main_buffer)]
        /\ main_buffer[Len(main_buffer)] = local[t].main_signal
        /\ reference_buffer[Len(reference_buffer)] = local[t].reference_signal

\* C24: reentrancy of callbacks: a status or data callback that calls
\* get_performance_summary of the same instance from inside the triggering
\* operation is not kept waiting: no thread is at the nested call's
\* `with self._lock` while the lock is held by that thread's own triggering
\* operation
NestedCallProceeds ==
    \A t \in Threads : ~(pc[t] = "gps_lock" /\ lock = t)

\* C25: decimated history length: the error-power history of a filter has
\* exactly floor(sample_count / 10) entries in every state; update_parameters
\* and auto_adjust_parameters leave the history as it was, and reset empties
\* the counter and the history together
DecimatedHistoryLength ==
    engine # <<>>
        => /\ Len(engine[1].error_power_history) = engine[1].sample_count \div 10
           /\ \A t \in Threads :
                  /\ (local[t].op \in {"update_parameters", "auto_adjust_parameters"})
                         => /\ engine[1].error_power_history
                                 = local[t].before[1].error_power_history
                            /\ engine[1].sample_count = local[t].before[1].sample_count
                  /\ Ended(t, "engine_reset")
                         => /\ engine[1].error_power_history = << >>
                            /\ engine[1].sample_count = 0

\* C25: a filter that has logged ten entries and has since taken a sample
\* that logged none
DecimatedHistoryReached ==
    /\ engine # <<>>
    /\ \E t \in Threads : Ended(t, "filter_sample")
    /\ Len(engine[1].error_power_history) = 10
    /\ engine[1].sample_count % 10 = 1

\* 10 * log10(first-10 average / current average), clamped at 0, of a
\* history of at least 10 entries whose last entry is the current average
NoiseReductionOf(hist) ==
    FMax(0, Decibels(Mean(SubSeq(hist, 1, 10)), hist[Len(hist)]))

\* the two averages of the history are positive, so that a recomputation
\* assigns noise_reduction_db
NoiseReductionDefined(hist) ==
    FGt(hist[Len(hist)], 0) /\ FGt(Mean(SubSeq(hist, 1, 10)), 0)

\* C26, as stated: noise_reduction_db is computed once at least 10
\* decimated entries exist: from the call that appends the 10th entry on it
\* is the value recomputed from the first-10 average and the current
\* average; before the 10th entry exists it is 0
NoiseReductionFromTenthEntry ==
    engine # <<>>
        => /\ Len(engine[1].error_power_history) < 10
                  => engine[1].noise_reduction_db = 0
           /\ (/\ Len(engine[1].error_power_history) >= 10
               /\ NoiseReductionDefined(engine[1].error_power_history))
                  => engine[1].noise_reduction_db
                       = NoiseReductionOf(engine[1].error_power_history)

\* C26, amended: noise_reduction_db is computed once more than 10 decimated
\* entries exist: from the call that appends the 11th entry on it is the
\* value recomputed from the first-10 average and the current average;
\* until the 11th entry exists it is 0
NoiseReductionFromEleventhEntry ==
    engine # <<>>
        => /\ Len(engine[1].error_power_history) <= 10
                  => engine[1].noise_reduction_db = 0
           /\ (/\ Len(engine[1].error_power_history) > 10
               /\ NoiseReductionDefined(engine[1].error_power_history))
                  => engine[1].noise_reduction_db
                       = NoiseReductionOf(engine[1].error_power_history)

\* C26: a filter whose history holds more than 10 entries and whose
\* noise_reduction_db has been recomputed to a positive value
NoiseReductionComputedReached ==
    /\ engine # <<>>
    /\ Len(engine[1].error_power_history) > 10
    /\ NoiseReductionDefined(engine[1].error_power_history)
    /\ engine[1].noise_reduction_db > 0

\* C27: the four buffers stay aligned: a process_sample call that returns
\* leaves the main, reference, output and noise buffers with one and the
\* same length, min(sample_count, buffer_size), and the steps of update_mode
\* change none of the four buffers nor the sample count
BuffersAligned ==
    [][ \A t \in Threads :
            /\ (pc[t] \in {"um_lock", "um_notify"} /\ pc'[t] # pc[t])
                   => UNCHANGED << buffers, sample_count, buffer_size >>
            /\ (/\ pc[t] \in {"ps_mode", "ps_notify"}
                /\ pc'[t] = "idle"
                /\ local'[t].returned = "value")
                   => /\ Len(main_buffer') = Least(sample_count', buffer_size')
                      /\ Len(reference_buffer') = Len(main_buffer')
                      /\ Len(output_buffer') = Len(main_buffer')
                      /\ Len(noise_buffer') = Len(main_buffer') ]_vars

\* C27: process_sample has returned for the second time on an instance
\* that update_mode switched into a filter mode after the first sample
BuffersAlignedAfterModeChangeReached ==
    \E t \in Threads :
        /\ Ended(t, "process_sample")
        /\ local[t].returned = "value"
        /\ sample_count = 2
        /\ Len(noise_buffer) = Least(2, buffer_size)
        /\ lms_filter # <<>>
        /\ lms_filter[1].base.sample_count = 1

\* C28: a callback that throws leaves the lock released and the state
\* consistent: when the operation is over the lock is free; for a throwing
\* data callback the sample is fully recorded (counted, and in all four
\* buffers); and a caller that comes to the lock of process_sample, reset,
\* update_mode or export_data afterwards finds it free
CallbackRaiseReleasesLock ==
    \A t \in Threads :
        /\ (pc[t] = "idle" /\ local[t].callback_raised \notin {"none", "blocked"})
               => /\ lock = NoThread
                  /\ local[t].op = "process_sample"
                         => /\ sample_count >= 1
                            /\ Len(main_buffer) = Least(sample_count, buffer_size)
                            /\ Len(reference_buffer) = Len(main_buffer)
                            /\ Len(output_buffer) = Len(main_buffer)
                            /\ Len(noise_buffer) = Len(main_buffer)
                            /\ main_buffer[Len(main_buffer)] = local[t].main_signal
                            /\ reference_buffer[Len(reference_buffer)]
                                 = local[t].reference_signal
                            /\ output_buffer[Len(output_buffer)] = local[t].processed
        /\ pc[t] \in {"ps_lock", "rs_lock", "um_lock", "ex_lock"} => lock = NoThread

\* C28: process_sample is over with the exception of its data callback, on
\* an instance whose buffers are full
DataCallbackRaisedReached ==
    \E t \in Threads :
        /\ Ended(t, "process_sample")
        /\ local[t].callback_raised = "CallbackError"
        /\ local[t].raised = "CallbackError"
        /\ sample_count >= buffer_size
        /\ Len(output_buffer) = buffer_size

\* C29: router locking never deadlocks and never leaks the router lock:
\* every add_channel, setup_processing_pair, process_multi_sample and
\* get_all_performance_summaries call that has come to the router's lock
\* returns, and the router lock is free for the next caller once it has
RouterCallsReturn ==
    \A t \in Threads :
        (pc[t] \in {"ac_lock", "spp_lock", "pms_lock", "gaps_lock"})
            ~> (pc[t] = "idle" /\ router_lock = NoThread)

\* C30: the filter of an instance has the configuration (tap count, step
\* size, leakage, adaptation interval) of the filter of an instance
\* constructed directly in its mode, also when update_mode created it on an
\* instance constructed in a mode without a filter
EngineConfigurationAsConstructed ==
    (lms_filter # <<>> /\ suppression_mode \in EngineModes)
        => /\ lms_filter[1].base.filter_length
                = ConstructedFilter(suppression_mode)[1].base.filter_length
           /\ lms_filter[1].base.step_size
                = ConstructedFilter(suppression_mode)[1].base.step_size
           /\ lms_filter[1].base.leakage
                = ConstructedFilter(suppression_mode)[1].base.leakage
           /\ lms_filter[1].adaptation_interval
                = ConstructedFilter(suppression_mode)[1].adaptation_interval

====
